---- MODULE Spec2Model ----
(***************************************************************************)
(* Model of the drug mention graph generator                               *)
(* (src/src/drug_graph_generator): the graph builder of processing.py, the *)
(* ad-hoc queries of adhoc_queries.py, parse_date and normalize_text of    *)
(* utils.py, the loaders of data_loader.py and run_pipeline of main.py.    *)
(*                                                                         *)
(* Text that the code looks into (entity names, titles, dates, ...) is a    *)
(* sequence of characters, each character its code point.  Text that the   *)
(* code only stores, compares or hashes (journal names, ids, ...) is a     *)
(* TLA+ string.  A Python dict is a sequence of key/value records in       *)
(* insertion order.                                                        *)
(***************************************************************************)
EXTENDS Integers, Sequences, FiniteSets, TLC

VARIABLES
    drugs_list,             \* argument of build_drug_mention_graph
    publications_list,      \* argument of build_drug_mention_graph
    drug_mention_graph,     \* the local dict being built, then the returned graph
    di,                     \* position of the outer loop (for drug in drugs_list)
    pi,                     \* position of the inner loop (for pub in publications_list)
    pc,                     \* control state
    error,                  \* the exception that left the builder, "" if none
    most_prolific_journal,  \* result of find_journal_with_most_unique_drugs
    run,                    \* 1 for the first call of the builder, 2 for the second
    first_drugs,            \* arguments and outcome of the first call, kept for comparison
    first_pubs,
    first_graph,
    first_pc,
    m_entity,               \* matcher inputs and result (matching rule on its own)
    m_title,
    m_found,
    target_drug_name,       \* argument of the last find_related_drugs_by_pubmed_journals
    related_drugs,          \* its result
    workers,                \* the workers of a build partitioned by entity
    assembled,              \* the graph put together from the workers' graphs
    date_str,               \* argument of parse_date
    parsed_date,            \* its result
    matched_format,         \* position in formats_to_try of the format that parsed, 0 if none
    text_arg,               \* argument of normalize_text
    normalized,             \* its result
    renormalized,           \* normalize_text of that result
    entry_args,             \* arguments of _create_publication_entry
    pub_entry,              \* the record it returns
    call,                   \* the loading function that is called
    files,                  \* the input files, by the name config.py gives their path
    loaded,                 \* what the loading function returned
    step,                   \* position of run_pipeline
    trace,                  \* the steps run_pipeline has made, in order
    output_dir,             \* config.OUTPUT_DIR on disk: "absent" or "present"
    output_file,            \* config.OUTPUT_JSON_FILE on disk
    save_error              \* the exception caught while saving, "" if none

\* the variables of the ad-hoc query on related entities
queryVars == << target_drug_name, related_drugs >>
\* the variables of the partitioned build
workerVars == << workers, assembled >>
\* the variables of parse_date and normalize_text
dateVars == << date_str, parsed_date, matched_format >>
textVars == << text_arg, normalized, renormalized >>
\* the variables of the loaders and of run_pipeline
loaderVars == << entry_args, pub_entry, call, files, loaded >>
pipelineVars == << step, trace, output_dir, output_file, save_error >>

vars == << drugs_list, publications_list, drug_mention_graph, di, pi, pc, error,
           most_prolific_journal, run, first_drugs, first_pubs, first_graph,
           first_pc, m_entity, m_title, m_found,
           queryVars, workerVars, dateVars, textVars, loaderVars, pipelineVars >>

-----------------------------------------------------------------------------
(* Bounds of the model *)

\* longest text handed to normalize_text
MaxTextLen == 4
\* most rows in an input file
MaxRows == 2
\* longest entity list handed to the builder
MaxDrugs == 2
\* longest record list handed to the builder
MaxPubs == 2
\* longest entity name tried by the matcher on its own
MaxEntityLen == 2
\* longest title tried by the matcher on its own
MaxTitleLen == 4

-----------------------------------------------------------------------------
(* Helpers on sequences *)

Range(s) == { s[i] : i \in 1..Len(s) }

SeqsUpTo(S, n) == UNION { [1..k -> S] : k \in 0..n }

\* the elements of s in order of first appearance
RECURSIVE FirstSeen(_)
FirstSeen(s) ==
    IF s = << >> THEN << >>
    ELSE LET front == FirstSeen(SubSeq(s, 1, Len(s) - 1))
             last  == s[Len(s)]
         IN IF last \in Range(front) THEN front ELSE Append(front, last)

\* all rearrangements of s
Permutations_of(s) ==
    { [i \in 1..Len(s) |-> s[f[i]]] :
        f \in { g \in [1..Len(s) -> 1..Len(s)] : \A i, j \in 1..Len(s) : g[i] = g[j] => i = j } }

-----------------------------------------------------------------------------
(* Python values *)

\* a Python str holding the characters cs
Str(cs) == [type |-> "str", v |-> cs]
\* Python None (what dict.get returns for an absent key)
PyNone == [type |-> "NoneType", v |-> << >>]
\* some non-zero Python int
PyInt == [type |-> "int", v |-> << >>]

\* bool(x) as Python computes it for the values above
Truthy(x) ==
    CASE x.type = "str"      -> x.v # << >>
      [] x.type = "NoneType" -> FALSE
      [] OTHER               -> TRUE

\* a key that the record dict does not hold: pub[key] raises KeyError
MISSING == "<missing>"
\* a value of an unhashable type (a list): using it as a dict key raises TypeError
UNHASHABLE == "<list>"
\* Python None as the result of a query
NONE == "<None>"

-----------------------------------------------------------------------------
(* The matching rule: re.search(r'\b' + re.escape(name) + r'\b', title) *)

\* A character is its code point, ord(c), a number from 0 to 1114111, and a text is
\* the sequence of its characters.  The tables of characters below are those of
\* the interpreter's Unicode database, as ranges << first, last >> of code points.

\* the characters from U+0020 to U+005F and from U+0061 to U+007E, in order
PrintableLow ==
    << " ", "!", "\"", "#", "$", "%", "&", "'", "(", ")", "*", "+", ",", "-", ".", "/", "0",
      "1", "2", "3", "4", "5", "6", "7", "8", "9", ":", ";", "<", "=", ">", "?", "@", "A", "B",
      "C", "D", "E", "F", "G", "H", "I", "J", "K", "L", "M", "N", "O", "P", "Q", "R", "S", "T",
      "U", "V", "W", "X", "Y", "Z", "[", "\\", "]", "^", "_" >>

PrintableHigh ==
    << "a", "b", "c", "d", "e", "f", "g", "h", "i", "j", "k", "l", "m", "n", "o", "p", "q", "r",
      "s", "t", "u", "v", "w", "x", "y", "z", "{", "|", "}", "~" >>

\* ord(c) for a character of ASCII
ord(c) ==
    CASE c = "\t" -> 9
      [] c = "\n" -> 10
      [] c = "\f" -> 12
      [] c = "\r" -> 13
      [] c \in Range(PrintableLow) ->
            31 + CHOOSE i \in 1..Len(PrintableLow) : PrintableLow[i] = c
      [] c \in Range(PrintableHigh) ->
            96 + CHOOSE i \in 1..Len(PrintableHigh) : PrintableHigh[i] = c

\* the text written with the characters s of ASCII
chars(s) == [i \in 1..Len(s) |-> ord(s[i])]

\* the code points of the ranges rs
CodePoints(rs) == UNION { r[1]..r[2] : r \in rs }

\* the characters \w matches in a str pattern: c.isalnum() or c = "_"
WordRanges ==
    { << 48, 57 >>, << 65, 90 >>, << 95, 95 >>, << 97, 122 >>, << 170, 170 >>, << 178, 179 >>,
      << 181, 181 >>, << 185, 186 >>, << 188, 190 >>, << 192, 214 >>, << 216, 246 >>,
      << 248, 705 >>, << 710, 721 >>, << 736, 740 >>, << 748, 748 >>, << 750, 750 >>,
      << 880, 884 >>, << 886, 887 >>, << 890, 893 >>, << 895, 895 >>, << 902, 902 >>,
      << 904, 906 >>, << 908, 908 >>, << 910, 929 >>, << 931, 1013 >>, << 1015, 1153 >>,
      << 1162, 1327 >>, << 1329, 1366 >>, << 1369, 1369 >>, << 1376, 1416 >>, << 1488, 1514 >>,
      << 1519, 1522 >>, << 1568, 1610 >>, << 1632, 1641 >>, << 1646, 1647 >>, << 1649, 1747 >>,
      << 1749, 1749 >>, << 1765, 1766 >>, << 1774, 1788 >>, << 1791, 1791 >>, << 1808, 1808 >>,
      << 1810, 1839 >>, << 1869, 1957 >>, << 1969, 1969 >>, << 1984, 2026 >>, << 2036, 2037 >>,
      << 2042, 2042 >>, << 2048, 2069 >>, << 2074, 2074 >>, << 2084, 2084 >>, << 2088, 2088 >>,
      << 2112, 2136 >>, << 2144, 2154 >>, << 2160, 2183 >>, << 2185, 2190 >>, << 2208, 2249 >>,
      << 2308, 2361 >>, << 2365, 2365 >>, << 2384, 2384 >>, << 2392, 2401 >>, << 2406, 2415 >>,
      << 2417, 2432 >>, << 2437, 2444 >>, << 2447, 2448 >>, << 2451, 2472 >>, << 2474, 2480 >>,
      << 2482, 2482 >>, << 2486, 2489 >>, << 2493, 2493 >>, << 2510, 2510 >>, << 2524, 2525 >>,
      << 2527, 2529 >>, << 2534, 2545 >>, << 2548, 2553 >>, << 2556, 2556 >>, << 2565, 2570 >>,
      << 2575, 2576 >>, << 2579, 2600 >>, << 2602, 2608 >>, << 2610, 2611 >>, << 2613, 2614 >>,
      << 2616, 2617 >>, << 2649, 2652 >>, << 2654, 2654 >>, << 2662, 2671 >>, << 2674, 2676 >>,
      << 2693, 2701 >>, << 2703, 2705 >>, << 2707, 2728 >>, << 2730, 2736 >>, << 2738, 2739 >>,
      << 2741, 2745 >>, << 2749, 2749 >>, << 2768, 2768 >>, << 2784, 2785 >>, << 2790, 2799 >>,
      << 2809, 2809 >>, << 2821, 2828 >>, << 2831, 2832 >>, << 2835, 2856 >>, << 2858, 2864 >>,
      << 2866, 2867 >>, << 2869, 2873 >>, << 2877, 2877 >>, << 2908, 2909 >>, << 2911, 2913 >>,
      << 2918, 2927 >>, << 2929, 2935 >>, << 2947, 2947 >>, << 2949, 2954 >>, << 2958, 2960 >>,
      << 2962, 2965 >>, << 2969, 2970 >>, << 2972, 2972 >>, << 2974, 2975 >>, << 2979, 2980 >>,
      << 2984, 2986 >>, << 2990, 3001 >>, << 3024, 3024 >>, << 3046, 3058 >>, << 3077, 3084 >>,
      << 3086, 3088 >>, << 3090, 3112 >>, << 3114, 3129 >>, << 3133, 3133 >>, << 3160, 3162 >>,
      << 3165, 3165 >>, << 3168, 3169 >>, << 3174, 3183 >>, << 3192, 3198 >>, << 3200, 3200 >>,
      << 3205, 3212 >>, << 3214, 3216 >>, << 3218, 3240 >>, << 3242, 3251 >>, << 3253, 3257 >>,
      << 3261, 3261 >>, << 3293, 3294 >>, << 3296, 3297 >>, << 3302, 3311 >>, << 3313, 3314 >>,
      << 3332, 3340 >>, << 3342, 3344 >>, << 3346, 3386 >>, << 3389, 3389 >>, << 3406, 3406 >>,
      << 3412, 3414 >>, << 3416, 3425 >>, << 3430, 3448 >>, << 3450, 3455 >>, << 3461, 3478 >>,
      << 3482, 3505 >>, << 3507, 3515 >>, << 3517, 3517 >>, << 3520, 3526 >>, << 3558, 3567 >>,
      << 3585, 3632 >>, << 3634, 3635 >>, << 3648, 3654 >>, << 3664, 3673 >>, << 3713, 3714 >>,
      << 3716, 3716 >>, << 3718, 3722 >>, << 3724, 3747 >>, << 3749, 3749 >>, << 3751, 3760 >>,
      << 3762, 3763 >>, << 3773, 3773 >>, << 3776, 3780 >>, << 3782, 3782 >>, << 3792, 3801 >>,
      << 3804, 3807 >>, << 3840, 3840 >>, << 3872, 3891 >>, << 3904, 3911 >>, << 3913, 3948 >>,
      << 3976, 3980 >>, << 4096, 4138 >>, << 4159, 4169 >>, << 4176, 4181 >>, << 4186, 4189 >>,
      << 4193, 4193 >>, << 4197, 4198 >>, << 4206, 4208 >>, << 4213, 4225 >>, << 4238, 4238 >>,
      << 4240, 4249 >>, << 4256, 4293 >>, << 4295, 4295 >>, << 4301, 4301 >>, << 4304, 4346 >>,
      << 4348, 4680 >>, << 4682, 4685 >>, << 4688, 4694 >>, << 4696, 4696 >>, << 4698, 4701 >>,
      << 4704, 4744 >>, << 4746, 4749 >>, << 4752, 4784 >>, << 4786, 4789 >>, << 4792, 4798 >>,
      << 4800, 4800 >>, << 4802, 4805 >>, << 4808, 4822 >>, << 4824, 4880 >>, << 4882, 4885 >>,
      << 4888, 4954 >>, << 4969, 4988 >>, << 4992, 5007 >>, << 5024, 5109 >>, << 5112, 5117 >>,
      << 5121, 5740 >>, << 5743, 5759 >>, << 5761, 5786 >>, << 5792, 5866 >>, << 5870, 5880 >>,
      << 5888, 5905 >>, << 5919, 5937 >>, << 5952, 5969 >>, << 5984, 5996 >>, << 5998, 6000 >>,
      << 6016, 6067 >>, << 6103, 6103 >>, << 6108, 6108 >>, << 6112, 6121 >>, << 6128, 6137 >>,
      << 6160, 6169 >>, << 6176, 6264 >>, << 6272, 6276 >>, << 6279, 6312 >>, << 6314, 6314 >>,
      << 6320, 6389 >>, << 6400, 6430 >>, << 6470, 6509 >>, << 6512, 6516 >>, << 6528, 6571 >>,
      << 6576, 6601 >>, << 6608, 6618 >>, << 6656, 6678 >>, << 6688, 6740 >>, << 6784, 6793 >>,
      << 6800, 6809 >>, << 6823, 6823 >>, << 6917, 6963 >>, << 6981, 6988 >>, << 6992, 7001 >>,
      << 7043, 7072 >>, << 7086, 7141 >>, << 7168, 7203 >>, << 7232, 7241 >>, << 7245, 7293 >>,
      << 7296, 7304 >>, << 7312, 7354 >>, << 7357, 7359 >>, << 7401, 7404 >>, << 7406, 7411 >>,
      << 7413, 7414 >>, << 7418, 7418 >>, << 7424, 7615 >>, << 7680, 7957 >>, << 7960, 7965 >>,
      << 7968, 8005 >>, << 8008, 8013 >>, << 8016, 8023 >>, << 8025, 8025 >>, << 8027, 8027 >>,
      << 8029, 8029 >>, << 8031, 8061 >>, << 8064, 8116 >>, << 8118, 8124 >>, << 8126, 8126 >>,
      << 8130, 8132 >>, << 8134, 8140 >>, << 8144, 8147 >>, << 8150, 8155 >>, << 8160, 8172 >>,
      << 8178, 8180 >>, << 8182, 8188 >>, << 8304, 8305 >>, << 8308, 8313 >>, << 8319, 8329 >>,
      << 8336, 8348 >>, << 8450, 8450 >>, << 8455, 8455 >>, << 8458, 8467 >>, << 8469, 8469 >>,
      << 8473, 8477 >>, << 8484, 8484 >>, << 8486, 8486 >>, << 8488, 8488 >>, << 8490, 8493 >>,
      << 8495, 8505 >>, << 8508, 8511 >>, << 8517, 8521 >>, << 8526, 8526 >>, << 8528, 8585 >>,
      << 9312, 9371 >>, << 9450, 9471 >>, << 10102, 10131 >>, << 11264, 11492 >>,
      << 11499, 11502 >>, << 11506, 11507 >>, << 11517, 11517 >>, << 11520, 11557 >>,
      << 11559, 11559 >>, << 11565, 11565 >>, << 11568, 11623 >>, << 11631, 11631 >>,
      << 11648, 11670 >>, << 11680, 11686 >>, << 11688, 11694 >>, << 11696, 11702 >>,
      << 11704, 11710 >>, << 11712, 11718 >>, << 11720, 11726 >>, << 11728, 11734 >>,
      << 11736, 11742 >>, << 11823, 11823 >>, << 12293, 12295 >>, << 12321, 12329 >>,
      << 12337, 12341 >>, << 12344, 12348 >>, << 12353, 12438 >>, << 12445, 12447 >>,
      << 12449, 12538 >>, << 12540, 12543 >>, << 12549, 12591 >>, << 12593, 12686 >>,
      << 12690, 12693 >>, << 12704, 12735 >>, << 12784, 12799 >>, << 12832, 12841 >>,
      << 12872, 12879 >>, << 12881, 12895 >>, << 12928, 12937 >>, << 12977, 12991 >>,
      << 13312, 19903 >>, << 19968, 42124 >>, << 42192, 42237 >>, << 42240, 42508 >>,
      << 42512, 42539 >>, << 42560, 42606 >>, << 42623, 42653 >>, << 42656, 42735 >>,
      << 42775, 42783 >>, << 42786, 42888 >>, << 42891, 42954 >>, << 42960, 42961 >>,
      << 42963, 42963 >>, << 42965, 42969 >>, << 42994, 43009 >>, << 43011, 43013 >>,
      << 43015, 43018 >>, << 43020, 43042 >>, << 43056, 43061 >>, << 43072, 43123 >>,
      << 43138, 43187 >>, << 43216, 43225 >>, << 43250, 43255 >>, << 43259, 43259 >>,
      << 43261, 43262 >>, << 43264, 43301 >>, << 43312, 43334 >>, << 43360, 43388 >>,
      << 43396, 43442 >>, << 43471, 43481 >>, << 43488, 43492 >>, << 43494, 43518 >>,
      << 43520, 43560 >>, << 43584, 43586 >>, << 43588, 43595 >>, << 43600, 43609 >>,
      << 43616, 43638 >>, << 43642, 43642 >>, << 43646, 43695 >>, << 43697, 43697 >>,
      << 43701, 43702 >>, << 43705, 43709 >>, << 43712, 43712 >>, << 43714, 43714 >>,
      << 43739, 43741 >>, << 43744, 43754 >>, << 43762, 43764 >>, << 43777, 43782 >>,
      << 43785, 43790 >>, << 43793, 43798 >>, << 43808, 43814 >>, << 43816, 43822 >>,
      << 43824, 43866 >>, << 43868, 43881 >>, << 43888, 44002 >>, << 44016, 44025 >>,
      << 44032, 55203 >>, << 55216, 55238 >>, << 55243, 55291 >>, << 63744, 64109 >>,
      << 64112, 64217 >>, << 64256, 64262 >>, << 64275, 64279 >>, << 64285, 64285 >>,
      << 64287, 64296 >>, << 64298, 64310 >>, << 64312, 64316 >>, << 64318, 64318 >>,
      << 64320, 64321 >>, << 64323, 64324 >>, << 64326, 64433 >>, << 64467, 64829 >>,
      << 64848, 64911 >>, << 64914, 64967 >>, << 65008, 65019 >>, << 65136, 65140 >>,
      << 65142, 65276 >>, << 65296, 65305 >>, << 65313, 65338 >>, << 65345, 65370 >>,
      << 65382, 65470 >>, << 65474, 65479 >>, << 65482, 65487 >>, << 65490, 65495 >>,
      << 65498, 65500 >>, << 65536, 65547 >>, << 65549, 65574 >>, << 65576, 65594 >>,
      << 65596, 65597 >>, << 65599, 65613 >>, << 65616, 65629 >>, << 65664, 65786 >>,
      << 65799, 65843 >>, << 65856, 65912 >>, << 65930, 65931 >>, << 66176, 66204 >>,
      << 66208, 66256 >>, << 66273, 66299 >>, << 66304, 66339 >>, << 66349, 66378 >>,
      << 66384, 66421 >>, << 66432, 66461 >>, << 66464, 66499 >>, << 66504, 66511 >>,
      << 66513, 66517 >>, << 66560, 66717 >>, << 66720, 66729 >>, << 66736, 66771 >>,
      << 66776, 66811 >>, << 66816, 66855 >>, << 66864, 66915 >>, << 66928, 66938 >>,
      << 66940, 66954 >>, << 66956, 66962 >>, << 66964, 66965 >>, << 66967, 66977 >>,
      << 66979, 66993 >>, << 66995, 67001 >>, << 67003, 67004 >>, << 67072, 67382 >>,
      << 67392, 67413 >>, << 67424, 67431 >>, << 67456, 67461 >>, << 67463, 67504 >>,
      << 67506, 67514 >>, << 67584, 67589 >>, << 67592, 67592 >>, << 67594, 67637 >>,
      << 67639, 67640 >>, << 67644, 67644 >>, << 67647, 67669 >>, << 67672, 67702 >>,
      << 67705, 67742 >>, << 67751, 67759 >>, << 67808, 67826 >>, << 67828, 67829 >>,
      << 67835, 67867 >>, << 67872, 67897 >>, << 67968, 68023 >>, << 68028, 68047 >>,
      << 68050, 68096 >>, << 68112, 68115 >>, << 68117, 68119 >>, << 68121, 68149 >>,
      << 68160, 68168 >>, << 68192, 68222 >>, << 68224, 68255 >>, << 68288, 68295 >>,
      << 68297, 68324 >>, << 68331, 68335 >>, << 68352, 68405 >>, << 68416, 68437 >>,
      << 68440, 68466 >>, << 68472, 68497 >>, << 68521, 68527 >>, << 68608, 68680 >>,
      << 68736, 68786 >>, << 68800, 68850 >>, << 68858, 68899 >>, << 68912, 68921 >>,
      << 69216, 69246 >>, << 69248, 69289 >>, << 69296, 69297 >>, << 69376, 69415 >>,
      << 69424, 69445 >>, << 69457, 69460 >>, << 69488, 69505 >>, << 69552, 69579 >>,
      << 69600, 69622 >>, << 69635, 69687 >>, << 69714, 69743 >>, << 69745, 69746 >>,
      << 69749, 69749 >>, << 69763, 69807 >>, << 69840, 69864 >>, << 69872, 69881 >>,
      << 69891, 69926 >>, << 69942, 69951 >>, << 69956, 69956 >>, << 69959, 69959 >>,
      << 69968, 70002 >>, << 70006, 70006 >>, << 70019, 70066 >>, << 70081, 70084 >>,
      << 70096, 70106 >>, << 70108, 70108 >>, << 70113, 70132 >>, << 70144, 70161 >>,
      << 70163, 70187 >>, << 70272, 70278 >>, << 70280, 70280 >>, << 70282, 70285 >>,
      << 70287, 70301 >>, << 70303, 70312 >>, << 70320, 70366 >>, << 70384, 70393 >>,
      << 70405, 70412 >>, << 70415, 70416 >>, << 70419, 70440 >>, << 70442, 70448 >>,
      << 70450, 70451 >>, << 70453, 70457 >>, << 70461, 70461 >>, << 70480, 70480 >>,
      << 70493, 70497 >>, << 70656, 70708 >>, << 70727, 70730 >>, << 70736, 70745 >>,
      << 70751, 70753 >>, << 70784, 70831 >>, << 70852, 70853 >>, << 70855, 70855 >>,
      << 70864, 70873 >>, << 71040, 71086 >>, << 71128, 71131 >>, << 71168, 71215 >>,
      << 71236, 71236 >>, << 71248, 71257 >>, << 71296, 71338 >>, << 71352, 71352 >>,
      << 71360, 71369 >>, << 71424, 71450 >>, << 71472, 71483 >>, << 71488, 71494 >>,
      << 71680, 71723 >>, << 71840, 71922 >>, << 71935, 71942 >>, << 71945, 71945 >>,
      << 71948, 71955 >>, << 71957, 71958 >>, << 71960, 71983 >>, << 71999, 71999 >>,
      << 72001, 72001 >>, << 72016, 72025 >>, << 72096, 72103 >>, << 72106, 72144 >>,
      << 72161, 72161 >>, << 72163, 72163 >>, << 72192, 72192 >>, << 72203, 72242 >>,
      << 72250, 72250 >>, << 72272, 72272 >>, << 72284, 72329 >>, << 72349, 72349 >>,
      << 72368, 72440 >>, << 72704, 72712 >>, << 72714, 72750 >>, << 72768, 72768 >>,
      << 72784, 72812 >>, << 72818, 72847 >>, << 72960, 72966 >>, << 72968, 72969 >>,
      << 72971, 73008 >>, << 73030, 73030 >>, << 73040, 73049 >>, << 73056, 73061 >>,
      << 73063, 73064 >>, << 73066, 73097 >>, << 73112, 73112 >>, << 73120, 73129 >>,
      << 73440, 73458 >>, << 73648, 73648 >>, << 73664, 73684 >>, << 73728, 74649 >>,
      << 74752, 74862 >>, << 74880, 75075 >>, << 77712, 77808 >>, << 77824, 78894 >>,
      << 82944, 83526 >>, << 92160, 92728 >>, << 92736, 92766 >>, << 92768, 92777 >>,
      << 92784, 92862 >>, << 92864, 92873 >>, << 92880, 92909 >>, << 92928, 92975 >>,
      << 92992, 92995 >>, << 93008, 93017 >>, << 93019, 93025 >>, << 93027, 93047 >>,
      << 93053, 93071 >>, << 93760, 93846 >>, << 93952, 94026 >>, << 94032, 94032 >>,
      << 94099, 94111 >>, << 94176, 94177 >>, << 94179, 94179 >>, << 94208, 100343 >>,
      << 100352, 101589 >>, << 101632, 101640 >>, << 110576, 110579 >>, << 110581, 110587 >>,
      << 110589, 110590 >>, << 110592, 110882 >>, << 110928, 110930 >>, << 110948, 110951 >>,
      << 110960, 111355 >>, << 113664, 113770 >>, << 113776, 113788 >>, << 113792, 113800 >>,
      << 113808, 113817 >>, << 119520, 119539 >>, << 119648, 119672 >>, << 119808, 119892 >>,
      << 119894, 119964 >>, << 119966, 119967 >>, << 119970, 119970 >>, << 119973, 119974 >>,
      << 119977, 119980 >>, << 119982, 119993 >>, << 119995, 119995 >>, << 119997, 120003 >>,
      << 120005, 120069 >>, << 120071, 120074 >>, << 120077, 120084 >>, << 120086, 120092 >>,
      << 120094, 120121 >>, << 120123, 120126 >>, << 120128, 120132 >>, << 120134, 120134 >>,
      << 120138, 120144 >>, << 120146, 120485 >>, << 120488, 120512 >>, << 120514, 120538 >>,
      << 120540, 120570 >>, << 120572, 120596 >>, << 120598, 120628 >>, << 120630, 120654 >>,
      << 120656, 120686 >>, << 120688, 120712 >>, << 120714, 120744 >>, << 120746, 120770 >>,
      << 120772, 120779 >>, << 120782, 120831 >>, << 122624, 122654 >>, << 123136, 123180 >>,
      << 123191, 123197 >>, << 123200, 123209 >>, << 123214, 123214 >>, << 123536, 123565 >>,
      << 123584, 123627 >>, << 123632, 123641 >>, << 124896, 124902 >>, << 124904, 124907 >>,
      << 124909, 124910 >>, << 124912, 124926 >>, << 124928, 125124 >>, << 125127, 125135 >>,
      << 125184, 125251 >>, << 125259, 125259 >>, << 125264, 125273 >>, << 126065, 126123 >>,
      << 126125, 126127 >>, << 126129, 126132 >>, << 126209, 126253 >>, << 126255, 126269 >>,
      << 126464, 126467 >>, << 126469, 126495 >>, << 126497, 126498 >>, << 126500, 126500 >>,
      << 126503, 126503 >>, << 126505, 126514 >>, << 126516, 126519 >>, << 126521, 126521 >>,
      << 126523, 126523 >>, << 126530, 126530 >>, << 126535, 126535 >>, << 126537, 126537 >>,
      << 126539, 126539 >>, << 126541, 126543 >>, << 126545, 126546 >>, << 126548, 126548 >>,
      << 126551, 126551 >>, << 126553, 126553 >>, << 126555, 126555 >>, << 126557, 126557 >>,
      << 126559, 126559 >>, << 126561, 126562 >>, << 126564, 126564 >>, << 126567, 126570 >>,
      << 126572, 126578 >>, << 126580, 126583 >>, << 126585, 126588 >>, << 126590, 126590 >>,
      << 126592, 126601 >>, << 126603, 126619 >>, << 126625, 126627 >>, << 126629, 126633 >>,
      << 126635, 126651 >>, << 127232, 127244 >>, << 130032, 130041 >>, << 131072, 173791 >>,
      << 173824, 177976 >>, << 177984, 178205 >>, << 178208, 183969 >>, << 183984, 191456 >>,
      << 194560, 195101 >>, << 196608, 201546 >> }

WordChars == CodePoints(WordRanges)

IsWordChar(c) == c \in WordChars

\* pattern tokens
WordBoundary == [kind |-> "boundary", ch |-> ""]
Literal(c) == [kind |-> "literal", ch |-> c]

\* re.escape(name): every character stands for itself
re_escape(name) == [i \in 1..Len(name) |-> Literal(name[i])]

\* drug_pattern = r'\b' + re.escape(drug_name_normalized) + r'\b'
drug_pattern(name) == << WordBoundary >> \o re_escape(name) \o << WordBoundary >>

\* \b at position pos (between text[pos-1] and text[pos]): exactly one side is a word character
AtWordBoundary(text, pos) ==
    LET before == pos > 1 /\ IsWordChar(text[pos - 1])
        after  == pos <= Len(text) /\ IsWordChar(text[pos])
    IN before # after

\* the tokens pattern[k..] match text starting at position pos
RECURSIVE MatchFrom(_, _, _, _)
MatchFrom(pattern, k, text, pos) ==
    IF k > Len(pattern) THEN TRUE
    ELSE IF pattern[k].kind = "boundary"
         THEN AtWordBoundary(text, pos) /\ MatchFrom(pattern, k + 1, text, pos)
         ELSE /\ pos <= Len(text)
              /\ text[pos] = pattern[k].ch
              /\ MatchFrom(pattern, k + 1, text, pos + 1)

\* re.search(pattern, text): the pattern matches at some position
re_search(pattern, text) ==
    \E pos \in 1..(Len(text) + 1) : MatchFrom(pattern, 1, text, pos)

\* the record list after pub.pop("title", None) on record i: the title is taken out
RecordsAfterPop(pubs, i) == [pubs EXCEPT ![i].title = PyNone]

\* the record list after pub.get("title") on record i: get only reads
RecordsAfterGet(pubs, i) == pubs

\* if pub_title_normalized and isinstance(pub_title_normalized, str)
TitleUsable(pub) == Truthy(pub.title) /\ pub.title.type = "str"

\* the record passes the title test and the entity's pattern is found in its title
Mentions(name, pub) == TitleUsable(pub) /\ re_search(drug_pattern(name), pub.title.v)

-----------------------------------------------------------------------------
(* The mention graph: entity -> journal -> list of occurrence records *)

EntityKeys(g) == [i \in 1..Len(g) |-> g[i].drug]
HasEntity(g, e) == \E i \in 1..Len(g) : g[i].drug = e
EntityIndex(g, e) == CHOOSE i \in 1..Len(g) : g[i].drug = e

JournalKeys(js) == [k \in 1..Len(js) |-> js[k].journal]
HasJournal(js, j) == \E k \in 1..Len(js) : js[k].journal = j
JournalIndex(js, j) == CHOOSE k \in 1..Len(js) : js[k].journal = j

\* graph[e] and graph[e][j] for keys that exist
JournalsOf(g, e) == g[EntityIndex(g, e)].journals
Bucket(g, e, j) == JournalsOf(g, e)[JournalIndex(JournalsOf(g, e), j)].mentions

\* publication_details with source_id read from the wrong key
publication_details_wrong_id(pub) ==
    [date              |-> pub.date,
     publication_title |-> pub.original_title,
     source_type       |-> pub.source_type,
     source_id         |-> pub.source_type]

\* publication_details, built from the record
publication_details(pub) ==
    [date              |-> pub.date,
     publication_title |-> pub.original_title,
     source_type       |-> pub.source_type,
     source_id         |-> pub.id]

\* if drug not in graph: graph[drug] = {}
EnsureEntity(g, e) ==
    IF HasEntity(g, e) THEN g ELSE Append(g, [drug |-> e, journals |-> << >>])

\* if journal not in graph[drug]: graph[drug][journal] = []
EnsureJournal(js, j) ==
    IF HasJournal(js, j) THEN js ELSE Append(js, [journal |-> j, mentions |-> << >>])

\* bucket.insert(0, details) in place of append
PrependIfAbsent(mentions, d) ==
    IF d \in Range(mentions) THEN mentions ELSE << d >> \o mentions

\* bucket.append(details) without the membership test
AppendAlways(mentions, d) == Append(mentions, d)

\* if details not in bucket: bucket.append(details)
AppendIfAbsent(mentions, d) ==
    IF d \in Range(mentions) THEN mentions ELSE Append(mentions, d)

\* the three statements above behind a test that the occurrence is in no bucket of
\* the whole graph yet
InsertMentionSeenOnce(g, e, j, d) ==
    IF \E i \in 1..Len(g) : \E k \in 1..Len(g[i].journals) :
          d \in Range(g[i].journals[k].mentions)
    THEN g
    ELSE LET g1  == EnsureEntity(g, e)
             i   == EntityIndex(g1, e)
             js1 == EnsureJournal(g1[i].journals, j)
             k   == JournalIndex(js1, j)
         IN [g1 EXCEPT ![i].journals =
                 [js1 EXCEPT ![k].mentions = AppendIfAbsent(js1[k].mentions, d)]]

\* the three statements above applied to the graph for one matching pair
InsertMention(g, e, j, d) ==
    LET g1  == EnsureEntity(g, e)
        i   == EntityIndex(g1, e)
        js1 == EnsureJournal(g1[i].journals, j)
        k   == JournalIndex(js1, j)
    IN [g1 EXCEPT ![i].journals =
            [js1 EXCEPT ![k].mentions = AppendIfAbsent(js1[k].mentions, d)]]

\* the exception the body of "if re.search(...)" raises for this record, "" if none:
\* pub["journal"], pub["date"], ... raise KeyError for an absent key, and an
\* unhashable journal raises TypeError when it is looked up as a dict key
ErrorOf(pub) ==
    IF \/ pub.journal = MISSING
       \/ pub.date = MISSING
       \/ pub.original_title = MISSING
       \/ pub.source_type = MISSING
       \/ pub.id = MISSING
    THEN "KeyError"
    ELSE IF pub.journal = UNHASHABLE THEN "TypeError" ELSE ""

-----------------------------------------------------------------------------
(* find_journal_with_most_unique_drugs *)

\* the (drug, journal) pairs of one graph entry, in the stored order of its journals
PairsOf(entry) ==
    [k \in 1..Len(entry.journals) |->
        [drug |-> entry.drug, journal |-> entry.journals[k].journal]]

\* for drug_name, journals_data in graph.items(): for journal_name in journals_data.keys()
RECURSIVE GraphPairs(_)
GraphPairs(g) ==
    IF g = << >> THEN << >>
    ELSE GraphPairs(SubSeq(g, 1, Len(g) - 1)) \o PairsOf(g[Len(g)])

\* journal_to_drugs_mentioned[journal_name].add(drug_name) on a defaultdict(set):
\* a new journal is appended to the dict, a known one keeps its place
AddDrug(jtd, j, d) ==
    IF \E k \in 1..Len(jtd) : jtd[k].journal = j
    THEN [k \in 1..Len(jtd) |->
            IF jtd[k].journal = j
            THEN [jtd[k] EXCEPT !.drugs = jtd[k].drugs \cup {d}]
            ELSE jtd[k]]
    ELSE Append(jtd, [journal |-> j, drugs |-> {d}])

\* journal_to_drugs_mentioned after the first loop over the pairs
RECURSIVE journal_to_drugs_mentioned(_)
journal_to_drugs_mentioned(pairs) ==
    IF pairs = << >> THEN << >>
    ELSE LET last == pairs[Len(pairs)]
         IN AddDrug(journal_to_drugs_mentioned(SubSeq(pairs, 1, Len(pairs) - 1)),
                    last.journal, last.drug)

\* if current_drug_count >= max_drugs_count
AtLeast(current_drug_count, max_drugs_count) == current_drug_count >= max_drugs_count

\* if current_drug_count > max_drugs_count
Exceeds(current_drug_count, max_drugs_count) == current_drug_count > max_drugs_count

\* the second loop without the update of max_drugs_count
RECURSIVE ScanJournalsKeepsMax(_, _, _, _)
ScanJournalsKeepsMax(jtd, k, best, max_drugs_count) ==
    IF k > Len(jtd) THEN best
    ELSE IF Cardinality(jtd[k].drugs) > max_drugs_count
         THEN ScanJournalsKeepsMax(jtd, k + 1, jtd[k].journal, max_drugs_count)
         ELSE ScanJournalsKeepsMax(jtd, k + 1, best, max_drugs_count)

\* the second loop: scan the dict from entry k on with the best journal and count so far
RECURSIVE ScanJournals(_, _, _, _)
ScanJournals(jtd, k, best, max_drugs_count) ==
    IF k > Len(jtd) THEN best
    ELSE LET current_drug_count == Cardinality(jtd[k].drugs)
         IN IF Exceeds(current_drug_count, max_drugs_count)
            THEN ScanJournals(jtd, k + 1, jtd[k].journal, current_drug_count)
            ELSE ScanJournals(jtd, k + 1, best, max_drugs_count)

find_journal_with_most_unique_drugs(g) ==
    IF g = << >> THEN NONE
    ELSE LET jtd == journal_to_drugs_mentioned(GraphPairs(g))
         IN IF jtd = << >> THEN NONE ELSE ScanJournals(jtd, 1, NONE, -1)

-----------------------------------------------------------------------------
(* str.lower, str.strip and str.startswith on sequences of characters *)

\* the characters c that str.lower() changes into one other character: a run
\* << first, last, step, shift >> holds first, first + step, ... up to last, and
\* c.lower() is c + shift for each c of the run
LowerRuns ==
    { << 65, 90, 1, 32 >>, << 192, 214, 1, 32 >>, << 216, 222, 1, 32 >>, << 256, 302, 2, 1 >>,
      << 306, 310, 2, 1 >>, << 313, 327, 2, 1 >>, << 330, 374, 2, 1 >>, << 376, 376, 1, -121 >>,
      << 377, 381, 2, 1 >>, << 385, 385, 1, 210 >>, << 386, 388, 2, 1 >>,
      << 390, 390, 1, 206 >>, << 391, 391, 1, 1 >>, << 393, 394, 1, 205 >>,
      << 395, 395, 1, 1 >>, << 398, 398, 1, 79 >>, << 399, 399, 1, 202 >>,
      << 400, 400, 1, 203 >>, << 401, 401, 1, 1 >>, << 403, 403, 1, 205 >>,
      << 404, 404, 1, 207 >>, << 406, 406, 1, 211 >>, << 407, 407, 1, 209 >>,
      << 408, 408, 1, 1 >>, << 412, 412, 1, 211 >>, << 413, 413, 1, 213 >>,
      << 415, 415, 1, 214 >>, << 416, 420, 2, 1 >>, << 422, 422, 1, 218 >>,
      << 423, 423, 1, 1 >>, << 425, 425, 1, 218 >>, << 428, 428, 1, 1 >>,
      << 430, 430, 1, 218 >>, << 431, 431, 1, 1 >>, << 433, 434, 1, 217 >>,
      << 435, 437, 2, 1 >>, << 439, 439, 1, 219 >>, << 440, 440, 1, 1 >>, << 444, 444, 1, 1 >>,
      << 452, 452, 1, 2 >>, << 453, 453, 1, 1 >>, << 455, 455, 1, 2 >>, << 456, 456, 1, 1 >>,
      << 458, 458, 1, 2 >>, << 459, 475, 2, 1 >>, << 478, 494, 2, 1 >>, << 497, 497, 1, 2 >>,
      << 498, 500, 2, 1 >>, << 502, 502, 1, -97 >>, << 503, 503, 1, -56 >>,
      << 504, 542, 2, 1 >>, << 544, 544, 1, -130 >>, << 546, 562, 2, 1 >>,
      << 570, 570, 1, 10795 >>, << 571, 571, 1, 1 >>, << 573, 573, 1, -163 >>,
      << 574, 574, 1, 10792 >>, << 577, 577, 1, 1 >>, << 579, 579, 1, -195 >>,
      << 580, 580, 1, 69 >>, << 581, 581, 1, 71 >>, << 582, 590, 2, 1 >>, << 880, 882, 2, 1 >>,
      << 886, 886, 1, 1 >>, << 895, 895, 1, 116 >>, << 902, 902, 1, 38 >>,
      << 904, 906, 1, 37 >>, << 908, 908, 1, 64 >>, << 910, 911, 1, 63 >>,
      << 913, 929, 1, 32 >>, << 931, 939, 1, 32 >>, << 975, 975, 1, 8 >>, << 984, 1006, 2, 1 >>,
      << 1012, 1012, 1, -60 >>, << 1015, 1015, 1, 1 >>, << 1017, 1017, 1, -7 >>,
      << 1018, 1018, 1, 1 >>, << 1021, 1023, 1, -130 >>, << 1024, 1039, 1, 80 >>,
      << 1040, 1071, 1, 32 >>, << 1120, 1152, 2, 1 >>, << 1162, 1214, 2, 1 >>,
      << 1216, 1216, 1, 15 >>, << 1217, 1229, 2, 1 >>, << 1232, 1326, 2, 1 >>,
      << 1329, 1366, 1, 48 >>, << 4256, 4293, 1, 7264 >>, << 4295, 4295, 1, 7264 >>,
      << 4301, 4301, 1, 7264 >>, << 5024, 5103, 1, 38864 >>, << 5104, 5109, 1, 8 >>,
      << 7312, 7354, 1, -3008 >>, << 7357, 7359, 1, -3008 >>, << 7680, 7828, 2, 1 >>,
      << 7838, 7838, 1, -7615 >>, << 7840, 7934, 2, 1 >>, << 7944, 7951, 1, -8 >>,
      << 7960, 7965, 1, -8 >>, << 7976, 7983, 1, -8 >>, << 7992, 7999, 1, -8 >>,
      << 8008, 8013, 1, -8 >>, << 8025, 8031, 2, -8 >>, << 8040, 8047, 1, -8 >>,
      << 8072, 8079, 1, -8 >>, << 8088, 8095, 1, -8 >>, << 8104, 8111, 1, -8 >>,
      << 8120, 8121, 1, -8 >>, << 8122, 8123, 1, -74 >>, << 8124, 8124, 1, -9 >>,
      << 8136, 8139, 1, -86 >>, << 8140, 8140, 1, -9 >>, << 8152, 8153, 1, -8 >>,
      << 8154, 8155, 1, -100 >>, << 8168, 8169, 1, -8 >>, << 8170, 8171, 1, -112 >>,
      << 8172, 8172, 1, -7 >>, << 8184, 8185, 1, -128 >>, << 8186, 8187, 1, -126 >>,
      << 8188, 8188, 1, -9 >>, << 8486, 8486, 1, -7517 >>, << 8490, 8490, 1, -8383 >>,
      << 8491, 8491, 1, -8262 >>, << 8498, 8498, 1, 28 >>, << 8544, 8559, 1, 16 >>,
      << 8579, 8579, 1, 1 >>, << 9398, 9423, 1, 26 >>, << 11264, 11311, 1, 48 >>,
      << 11360, 11360, 1, 1 >>, << 11362, 11362, 1, -10743 >>, << 11363, 11363, 1, -3814 >>,
      << 11364, 11364, 1, -10727 >>, << 11367, 11371, 2, 1 >>, << 11373, 11373, 1, -10780 >>,
      << 11374, 11374, 1, -10749 >>, << 11375, 11375, 1, -10783 >>,
      << 11376, 11376, 1, -10782 >>, << 11378, 11378, 1, 1 >>, << 11381, 11381, 1, 1 >>,
      << 11390, 11391, 1, -10815 >>, << 11392, 11490, 2, 1 >>, << 11499, 11501, 2, 1 >>,
      << 11506, 11506, 1, 1 >>, << 42560, 42604, 2, 1 >>, << 42624, 42650, 2, 1 >>,
      << 42786, 42798, 2, 1 >>, << 42802, 42862, 2, 1 >>, << 42873, 42875, 2, 1 >>,
      << 42877, 42877, 1, -35332 >>, << 42878, 42886, 2, 1 >>, << 42891, 42891, 1, 1 >>,
      << 42893, 42893, 1, -42280 >>, << 42896, 42898, 2, 1 >>, << 42902, 42920, 2, 1 >>,
      << 42922, 42922, 1, -42308 >>, << 42923, 42923, 1, -42319 >>,
      << 42924, 42924, 1, -42315 >>, << 42925, 42925, 1, -42305 >>,
      << 42926, 42926, 1, -42308 >>, << 42928, 42928, 1, -42258 >>,
      << 42929, 42929, 1, -42282 >>, << 42930, 42930, 1, -42261 >>, << 42931, 42931, 1, 928 >>,
      << 42932, 42946, 2, 1 >>, << 42948, 42948, 1, -48 >>, << 42949, 42949, 1, -42307 >>,
      << 42950, 42950, 1, -35384 >>, << 42951, 42953, 2, 1 >>, << 42960, 42960, 1, 1 >>,
      << 42966, 42968, 2, 1 >>, << 42997, 42997, 1, 1 >>, << 65313, 65338, 1, 32 >>,
      << 66560, 66599, 1, 40 >>, << 66736, 66771, 1, 40 >>, << 66928, 66938, 1, 39 >>,
      << 66940, 66954, 1, 39 >>, << 66956, 66962, 1, 39 >>, << 66964, 66965, 1, 39 >>,
      << 68736, 68786, 1, 64 >>, << 71840, 71871, 1, 32 >>, << 93760, 93791, 1, 32 >>,
      << 125184, 125217, 1, 34 >> }

InRun(c, r) == r[1] <= c /\ c <= r[2] /\ (c - r[1]) % r[3] = 0

UppercaseChars == UNION { { c \in r[1]..r[2] : InRun(c, r) } : r \in LowerRuns }

\* c.lower() for the characters of the runs
LowerOf == [c \in UppercaseChars |-> c + (CHOOSE r \in LowerRuns : InRun(c, r))[4]]

\* the capital I with a dot above, which str.lower() changes into two characters:
\* the small i and the combining dot above
CapitalIWithDot == 304
SmallIThenDot == << 105, 775 >>

\* the capital sigma and the two small ones: the one for the end of a word, and
\* next to it in the code chart the one for everywhere else
CapitalSigma == 931
FinalSigma == 962
SmallSigma == FinalSigma + 1

\* characters beyond ASCII among the inputs of the model, by code point: two digits
\* of the Bengali script, a capital letter and its lowercase, the long s that a
\* pattern compiled with IGNORECASE takes for an s, a blank, a capital letter
\* without a lowercase, and a capital letter of Latin-1
InputCodePoints ==
    [bengali_zero |-> 2534, bengali_two |-> 2536,
     capital_b_with_hook |-> 385, small_b_with_hook |-> 595,
     long_s |-> 383, em_quad |-> 8193,
     bold_capital_a |-> 119808, capital_e_acute |-> 201]
BengaliZero == InputCodePoints.bengali_zero
BengaliTwo == InputCodePoints.bengali_two
CapitalBWithHook == InputCodePoints.capital_b_with_hook
SmallBWithHook == InputCodePoints.small_b_with_hook
LongS == InputCodePoints.long_s
EmQuad == InputCodePoints.em_quad
BoldCapitalA == InputCodePoints.bold_capital_a
CapitalEAcute == InputCodePoints.capital_e_acute

\* the characters str.strip() removes and \s matches: c.isspace()
WhitespaceRanges ==
    { << 9, 13 >>, << 28, 32 >>, << 133, 133 >>, << 160, 160 >>, << 5760, 5760 >>,
      << 8192, 8202 >>, << 8232, 8233 >>, << 8239, 8239 >>, << 8287, 8287 >>, << 12288, 12288 >> }

Whitespace == CodePoints(WhitespaceRanges)

\* the characters that str.lower() skips when it looks for the letters around a
\* capital sigma (Case_Ignorable)
CaseIgnorableRanges ==
    { << 39, 39 >>, << 46, 46 >>, << 58, 58 >>, << 94, 94 >>, << 96, 96 >>, << 168, 168 >>,
      << 173, 173 >>, << 175, 175 >>, << 180, 180 >>, << 183, 184 >>, << 688, 879 >>,
      << 884, 885 >>, << 890, 890 >>, << 900, 901 >>, << 903, 903 >>, << 1155, 1161 >>,
      << 1369, 1369 >>, << 1375, 1375 >>, << 1425, 1469 >>, << 1471, 1471 >>, << 1473, 1474 >>,
      << 1476, 1477 >>, << 1479, 1479 >>, << 1524, 1524 >>, << 1536, 1541 >>, << 1552, 1562 >>,
      << 1564, 1564 >>, << 1600, 1600 >>, << 1611, 1631 >>, << 1648, 1648 >>, << 1750, 1757 >>,
      << 1759, 1768 >>, << 1770, 1773 >>, << 1807, 1807 >>, << 1809, 1809 >>, << 1840, 1866 >>,
      << 1958, 1968 >>, << 2027, 2037 >>, << 2042, 2042 >>, << 2045, 2045 >>, << 2070, 2093 >>,
      << 2137, 2139 >>, << 2184, 2184 >>, << 2192, 2193 >>, << 2200, 2207 >>, << 2249, 2306 >>,
      << 2362, 2362 >>, << 2364, 2364 >>, << 2369, 2376 >>, << 2381, 2381 >>, << 2385, 2391 >>,
      << 2402, 2403 >>, << 2417, 2417 >>, << 2433, 2433 >>, << 2492, 2492 >>, << 2497, 2500 >>,
      << 2509, 2509 >>, << 2530, 2531 >>, << 2558, 2558 >>, << 2561, 2562 >>, << 2620, 2620 >>,
      << 2625, 2626 >>, << 2631, 2632 >>, << 2635, 2637 >>, << 2641, 2641 >>, << 2672, 2673 >>,
      << 2677, 2677 >>, << 2689, 2690 >>, << 2748, 2748 >>, << 2753, 2757 >>, << 2759, 2760 >>,
      << 2765, 2765 >>, << 2786, 2787 >>, << 2810, 2815 >>, << 2817, 2817 >>, << 2876, 2876 >>,
      << 2879, 2879 >>, << 2881, 2884 >>, << 2893, 2893 >>, << 2901, 2902 >>, << 2914, 2915 >>,
      << 2946, 2946 >>, << 3008, 3008 >>, << 3021, 3021 >>, << 3072, 3072 >>, << 3076, 3076 >>,
      << 3132, 3132 >>, << 3134, 3136 >>, << 3142, 3144 >>, << 3146, 3149 >>, << 3157, 3158 >>,
      << 3170, 3171 >>, << 3201, 3201 >>, << 3260, 3260 >>, << 3263, 3263 >>, << 3270, 3270 >>,
      << 3276, 3277 >>, << 3298, 3299 >>, << 3328, 3329 >>, << 3387, 3388 >>, << 3393, 3396 >>,
      << 3405, 3405 >>, << 3426, 3427 >>, << 3457, 3457 >>, << 3530, 3530 >>, << 3538, 3540 >>,
      << 3542, 3542 >>, << 3633, 3633 >>, << 3636, 3642 >>, << 3654, 3662 >>, << 3761, 3761 >>,
      << 3764, 3772 >>, << 3782, 3782 >>, << 3784, 3789 >>, << 3864, 3865 >>, << 3893, 3893 >>,
      << 3895, 3895 >>, << 3897, 3897 >>, << 3953, 3966 >>, << 3968, 3972 >>, << 3974, 3975 >>,
      << 3981, 3991 >>, << 3993, 4028 >>, << 4038, 4038 >>, << 4141, 4144 >>, << 4146, 4151 >>,
      << 4153, 4154 >>, << 4157, 4158 >>, << 4184, 4185 >>, << 4190, 4192 >>, << 4209, 4212 >>,
      << 4226, 4226 >>, << 4229, 4230 >>, << 4237, 4237 >>, << 4253, 4253 >>, << 4348, 4348 >>,
      << 4957, 4959 >>, << 5906, 5908 >>, << 5938, 5939 >>, << 5970, 5971 >>, << 6002, 6003 >>,
      << 6068, 6069 >>, << 6071, 6077 >>, << 6086, 6086 >>, << 6089, 6099 >>, << 6103, 6103 >>,
      << 6109, 6109 >>, << 6155, 6159 >>, << 6211, 6211 >>, << 6277, 6278 >>, << 6313, 6313 >>,
      << 6432, 6434 >>, << 6439, 6440 >>, << 6450, 6450 >>, << 6457, 6459 >>, << 6679, 6680 >>,
      << 6683, 6683 >>, << 6742, 6742 >>, << 6744, 6750 >>, << 6752, 6752 >>, << 6754, 6754 >>,
      << 6757, 6764 >>, << 6771, 6780 >>, << 6783, 6783 >>, << 6823, 6823 >>, << 6832, 6862 >>,
      << 6912, 6915 >>, << 6964, 6964 >>, << 6966, 6970 >>, << 6972, 6972 >>, << 6978, 6978 >>,
      << 7019, 7027 >>, << 7040, 7041 >>, << 7074, 7077 >>, << 7080, 7081 >>, << 7083, 7085 >>,
      << 7142, 7142 >>, << 7144, 7145 >>, << 7149, 7149 >>, << 7151, 7153 >>, << 7212, 7219 >>,
      << 7222, 7223 >>, << 7288, 7293 >>, << 7376, 7378 >>, << 7380, 7392 >>, << 7394, 7400 >>,
      << 7405, 7405 >>, << 7412, 7412 >>, << 7416, 7417 >>, << 7468, 7530 >>, << 7544, 7544 >>,
      << 7579, 7679 >>, << 8125, 8125 >>, << 8127, 8129 >>, << 8141, 8143 >>, << 8157, 8159 >>,
      << 8173, 8175 >>, << 8189, 8190 >>, << 8203, 8207 >>, << 8216, 8217 >>, << 8228, 8228 >>,
      << 8231, 8231 >>, << 8234, 8238 >>, << 8288, 8292 >>, << 8294, 8303 >>, << 8305, 8305 >>,
      << 8319, 8319 >>, << 8336, 8348 >>, << 8400, 8432 >>, << 11388, 11389 >>,
      << 11503, 11505 >>, << 11631, 11631 >>, << 11647, 11647 >>, << 11744, 11775 >>,
      << 11823, 11823 >>, << 12293, 12293 >>, << 12330, 12333 >>, << 12337, 12341 >>,
      << 12347, 12347 >>, << 12441, 12446 >>, << 12540, 12542 >>, << 40981, 40981 >>,
      << 42232, 42237 >>, << 42508, 42508 >>, << 42607, 42610 >>, << 42612, 42621 >>,
      << 42623, 42623 >>, << 42652, 42655 >>, << 42736, 42737 >>, << 42752, 42785 >>,
      << 42864, 42864 >>, << 42888, 42890 >>, << 42994, 42996 >>, << 43000, 43001 >>,
      << 43010, 43010 >>, << 43014, 43014 >>, << 43019, 43019 >>, << 43045, 43046 >>,
      << 43052, 43052 >>, << 43204, 43205 >>, << 43232, 43249 >>, << 43263, 43263 >>,
      << 43302, 43309 >>, << 43335, 43345 >>, << 43392, 43394 >>, << 43443, 43443 >>,
      << 43446, 43449 >>, << 43452, 43453 >>, << 43471, 43471 >>, << 43493, 43494 >>,
      << 43561, 43566 >>, << 43569, 43570 >>, << 43573, 43574 >>, << 43587, 43587 >>,
      << 43596, 43596 >>, << 43632, 43632 >>, << 43644, 43644 >>, << 43696, 43696 >>,
      << 43698, 43700 >>, << 43703, 43704 >>, << 43710, 43711 >>, << 43713, 43713 >>,
      << 43741, 43741 >>, << 43756, 43757 >>, << 43763, 43764 >>, << 43766, 43766 >>,
      << 43867, 43871 >>, << 43881, 43883 >>, << 44005, 44005 >>, << 44008, 44008 >>,
      << 44013, 44013 >>, << 64286, 64286 >>, << 64434, 64450 >>, << 65024, 65039 >>,
      << 65043, 65043 >>, << 65056, 65071 >>, << 65106, 65106 >>, << 65109, 65109 >>,
      << 65279, 65279 >>, << 65287, 65287 >>, << 65294, 65294 >>, << 65306, 65306 >>,
      << 65342, 65342 >>, << 65344, 65344 >>, << 65392, 65392 >>, << 65438, 65439 >>,
      << 65507, 65507 >>, << 65529, 65531 >>, << 66045, 66045 >>, << 66272, 66272 >>,
      << 66422, 66426 >>, << 67456, 67461 >>, << 67463, 67504 >>, << 67506, 67514 >>,
      << 68097, 68099 >>, << 68101, 68102 >>, << 68108, 68111 >>, << 68152, 68154 >>,
      << 68159, 68159 >>, << 68325, 68326 >>, << 68900, 68903 >>, << 69291, 69292 >>,
      << 69446, 69456 >>, << 69506, 69509 >>, << 69633, 69633 >>, << 69688, 69702 >>,
      << 69744, 69744 >>, << 69747, 69748 >>, << 69759, 69761 >>, << 69811, 69814 >>,
      << 69817, 69818 >>, << 69821, 69821 >>, << 69826, 69826 >>, << 69837, 69837 >>,
      << 69888, 69890 >>, << 69927, 69931 >>, << 69933, 69940 >>, << 70003, 70003 >>,
      << 70016, 70017 >>, << 70070, 70078 >>, << 70089, 70092 >>, << 70095, 70095 >>,
      << 70191, 70193 >>, << 70196, 70196 >>, << 70198, 70199 >>, << 70206, 70206 >>,
      << 70367, 70367 >>, << 70371, 70378 >>, << 70400, 70401 >>, << 70459, 70460 >>,
      << 70464, 70464 >>, << 70502, 70508 >>, << 70512, 70516 >>, << 70712, 70719 >>,
      << 70722, 70724 >>, << 70726, 70726 >>, << 70750, 70750 >>, << 70835, 70840 >>,
      << 70842, 70842 >>, << 70847, 70848 >>, << 70850, 70851 >>, << 71090, 71093 >>,
      << 71100, 71101 >>, << 71103, 71104 >>, << 71132, 71133 >>, << 71219, 71226 >>,
      << 71229, 71229 >>, << 71231, 71232 >>, << 71339, 71339 >>, << 71341, 71341 >>,
      << 71344, 71349 >>, << 71351, 71351 >>, << 71453, 71455 >>, << 71458, 71461 >>,
      << 71463, 71467 >>, << 71727, 71735 >>, << 71737, 71738 >>, << 71995, 71996 >>,
      << 71998, 71998 >>, << 72003, 72003 >>, << 72148, 72151 >>, << 72154, 72155 >>,
      << 72160, 72160 >>, << 72193, 72202 >>, << 72243, 72248 >>, << 72251, 72254 >>,
      << 72263, 72263 >>, << 72273, 72278 >>, << 72281, 72283 >>, << 72330, 72342 >>,
      << 72344, 72345 >>, << 72752, 72758 >>, << 72760, 72765 >>, << 72767, 72767 >>,
      << 72850, 72871 >>, << 72874, 72880 >>, << 72882, 72883 >>, << 72885, 72886 >>,
      << 73009, 73014 >>, << 73018, 73018 >>, << 73020, 73021 >>, << 73023, 73029 >>,
      << 73031, 73031 >>, << 73104, 73105 >>, << 73109, 73109 >>, << 73111, 73111 >>,
      << 73459, 73460 >>, << 78896, 78904 >>, << 92912, 92916 >>, << 92976, 92982 >>,
      << 92992, 92995 >>, << 94031, 94031 >>, << 94095, 94111 >>, << 94176, 94177 >>,
      << 94179, 94180 >>, << 110576, 110579 >>, << 110581, 110587 >>, << 110589, 110590 >>,
      << 113821, 113822 >>, << 113824, 113827 >>, << 118528, 118573 >>, << 118576, 118598 >>,
      << 119143, 119145 >>, << 119155, 119170 >>, << 119173, 119179 >>, << 119210, 119213 >>,
      << 119362, 119364 >>, << 121344, 121398 >>, << 121403, 121452 >>, << 121461, 121461 >>,
      << 121476, 121476 >>, << 121499, 121503 >>, << 121505, 121519 >>, << 122880, 122886 >>,
      << 122888, 122904 >>, << 122907, 122913 >>, << 122915, 122916 >>, << 122918, 122922 >>,
      << 123184, 123197 >>, << 123566, 123566 >>, << 123628, 123631 >>, << 125136, 125142 >>,
      << 125252, 125259 >>, << 127995, 127999 >>, << 917505, 917505 >>, << 917536, 917631 >>,
      << 917760, 917999 >> }

CaseIgnorable == CodePoints(CaseIgnorableRanges)

\* the cased characters among those that are not skipped (Cased)
CasedRanges ==
    { << 65, 90 >>, << 97, 122 >>, << 170, 170 >>, << 181, 181 >>, << 186, 186 >>,
      << 192, 214 >>, << 216, 246 >>, << 248, 442 >>, << 444, 447 >>, << 452, 659 >>,
      << 661, 687 >>, << 880, 883 >>, << 886, 887 >>, << 891, 893 >>, << 895, 895 >>,
      << 902, 902 >>, << 904, 906 >>, << 908, 908 >>, << 910, 929 >>, << 931, 1013 >>,
      << 1015, 1153 >>, << 1162, 1327 >>, << 1329, 1366 >>, << 1376, 1416 >>, << 4256, 4293 >>,
      << 4295, 4295 >>, << 4301, 4301 >>, << 4304, 4346 >>, << 4349, 4351 >>, << 5024, 5109 >>,
      << 5112, 5117 >>, << 7296, 7304 >>, << 7312, 7354 >>, << 7357, 7359 >>, << 7424, 7467 >>,
      << 7531, 7543 >>, << 7545, 7578 >>, << 7680, 7957 >>, << 7960, 7965 >>, << 7968, 8005 >>,
      << 8008, 8013 >>, << 8016, 8023 >>, << 8025, 8025 >>, << 8027, 8027 >>, << 8029, 8029 >>,
      << 8031, 8061 >>, << 8064, 8116 >>, << 8118, 8124 >>, << 8126, 8126 >>, << 8130, 8132 >>,
      << 8134, 8140 >>, << 8144, 8147 >>, << 8150, 8155 >>, << 8160, 8172 >>, << 8178, 8180 >>,
      << 8182, 8188 >>, << 8450, 8450 >>, << 8455, 8455 >>, << 8458, 8467 >>, << 8469, 8469 >>,
      << 8473, 8477 >>, << 8484, 8484 >>, << 8486, 8486 >>, << 8488, 8488 >>, << 8490, 8493 >>,
      << 8495, 8500 >>, << 8505, 8505 >>, << 8508, 8511 >>, << 8517, 8521 >>, << 8526, 8526 >>,
      << 8544, 8575 >>, << 8579, 8580 >>, << 9398, 9449 >>, << 11264, 11387 >>,
      << 11390, 11492 >>, << 11499, 11502 >>, << 11506, 11507 >>, << 11520, 11557 >>,
      << 11559, 11559 >>, << 11565, 11565 >>, << 42560, 42605 >>, << 42624, 42651 >>,
      << 42786, 42863 >>, << 42865, 42887 >>, << 42891, 42894 >>, << 42896, 42954 >>,
      << 42960, 42961 >>, << 42963, 42963 >>, << 42965, 42969 >>, << 42997, 42998 >>,
      << 43002, 43002 >>, << 43824, 43866 >>, << 43872, 43880 >>, << 43888, 43967 >>,
      << 64256, 64262 >>, << 64275, 64279 >>, << 65313, 65338 >>, << 65345, 65370 >>,
      << 66560, 66639 >>, << 66736, 66771 >>, << 66776, 66811 >>, << 66928, 66938 >>,
      << 66940, 66954 >>, << 66956, 66962 >>, << 66964, 66965 >>, << 66967, 66977 >>,
      << 66979, 66993 >>, << 66995, 67001 >>, << 67003, 67004 >>, << 68736, 68786 >>,
      << 68800, 68850 >>, << 71840, 71903 >>, << 93760, 93823 >>, << 119808, 119892 >>,
      << 119894, 119964 >>, << 119966, 119967 >>, << 119970, 119970 >>, << 119973, 119974 >>,
      << 119977, 119980 >>, << 119982, 119993 >>, << 119995, 119995 >>, << 119997, 120003 >>,
      << 120005, 120069 >>, << 120071, 120074 >>, << 120077, 120084 >>, << 120086, 120092 >>,
      << 120094, 120121 >>, << 120123, 120126 >>, << 120128, 120132 >>, << 120134, 120134 >>,
      << 120138, 120144 >>, << 120146, 120485 >>, << 120488, 120512 >>, << 120514, 120538 >>,
      << 120540, 120570 >>, << 120572, 120596 >>, << 120598, 120628 >>, << 120630, 120654 >>,
      << 120656, 120686 >>, << 120688, 120712 >>, << 120714, 120744 >>, << 120746, 120770 >>,
      << 120772, 120779 >>, << 122624, 122633 >>, << 122635, 122654 >>, << 125184, 125251 >>,
      << 127280, 127305 >>, << 127312, 127337 >>, << 127344, 127369 >> }

Cased == CodePoints(CasedRanges)

\* c.lower(), a text of one character or two
lower_char(c) ==
    CASE c = CapitalIWithDot -> SmallIThenDot
      [] c \in UppercaseChars -> << LowerOf[c] >>
      [] OTHER -> << c >>

\* the capital sigma at position i of s ends a word: the nearest character before it
\* that is not skipped is cased, and the nearest one after it, if any, is not
final_sigma(s, i) ==
    LET before == { j \in 1..(i - 1) : s[j] \notin CaseIgnorable }
        after == { j \in (i + 1)..Len(s) : s[j] \notin CaseIgnorable }
    IN /\ before # { }
       /\ s[CHOOSE j \in before : \A k \in before : j >= k] \in Cased
       /\ \/ after = { }
          \/ s[CHOOSE j \in after : \A k \in after : j <= k] \notin Cased

\* "".join(parts)
RECURSIVE join(_)
join(parts) ==
    IF parts = << >> THEN << >> ELSE parts[1] \o join(Tail(parts))

\* s.lower(): character by character, but for the capital sigma, which becomes the
\* final sigma at the end of a word
str_lower(s) ==
    join([i \in 1..Len(s) |->
            IF s[i] = CapitalSigma /\ final_sigma(s, i) THEN << FinalSigma >>
            ELSE lower_char(s[i])])

\* s.lstrip(): the mistaken trimming that leaves trailing whitespace
str_lstrip(s) ==
    LET kept == { i \in 1..Len(s) : s[i] \notin Whitespace }
    IN IF kept = { } THEN << >>
       ELSE SubSeq(s, CHOOSE i \in kept : \A k \in kept : i <= k, Len(s))

\* s.strip()
str_strip(s) ==
    LET kept == { i \in 1..Len(s) : s[i] \notin Whitespace }
    IN IF kept = { } THEN << >>
       ELSE SubSeq(s, CHOOSE i \in kept : \A k \in kept : i <= k,
                      CHOOSE i \in kept : \A k \in kept : i >= k)

\* s.startswith(prefix)
startswith(s, prefix) ==
    /\ Len(s) >= Len(prefix)
    /\ SubSeq(s, 1, Len(prefix)) = prefix

\* the characters of the source types the loaders write, and of the prefix the
\* query looks for
str_chars(s) ==
    CASE s = "pubmed_csv" -> chars(<< "p", "u", "b", "m", "e", "d", "_", "c", "s", "v" >>)
      [] s = "pubmed_json" -> chars(<< "p", "u", "b", "m", "e", "d", "_", "j", "s", "o", "n" >>)
      [] s = "clinical_trials_csv" ->
            chars(<< "c", "l", "i", "n", "i", "c", "a", "l", "_", "t", "r", "i", "a", "l", "s",
               "_", "c", "s", "v" >>)
      [] s = "pubmed" -> chars(<< "p", "u", "b", "m", "e", "d" >>)

-----------------------------------------------------------------------------
(* find_related_drugs_by_pubmed_journals *)

\* mention.get("source_type", "").startswith("pubmed")
IsPubmedMention(mention) ==
    startswith(str_chars(mention.source_type), str_chars("pubmed"))

\* the mistaken scan that looks at the first mention of the bucket only
FirstMentionIsPubmed(mentions) ==
    mentions # << >> /\ IsPubmedMention(mentions[1])

\* for mention in mentions: if <pubmed>: ...; break
HasPubmedMention(mentions) ==
    \E n \in 1..Len(mentions) : IsPubmedMention(mentions[n])

\* the journals in which the target entity has a pubmed mention
target_drug_pubmed_journals(g, normalized_target_drug) ==
    LET journals == JournalsOf(g, normalized_target_drug)
    IN { journals[k].journal :
            k \in { n \in 1..Len(journals) : HasPubmedMention(journals[n].mentions) } }

\* the mistaken second step that takes every other entity of a shared journal,
\* whatever the source of its mentions there
OtherDrugsInSharedJournal(g, normalized_target_drug, target_journals) ==
    { g[i].drug :
        i \in { n \in 1..Len(g) :
                  /\ g[n].drug # normalized_target_drug
                  /\ \E k \in 1..Len(g[n].journals) :
                        g[n].journals[k].journal \in target_journals } }

\* the other entities with a pubmed mention in one of those journals
OtherDrugsIn(g, normalized_target_drug, target_journals) ==
    { g[i].drug :
        i \in { n \in 1..Len(g) :
                  /\ g[n].drug # normalized_target_drug
                  /\ \E k \in 1..Len(g[n].journals) :
                        /\ g[n].journals[k].journal \in target_journals
                        /\ HasPubmedMention(g[n].journals[k].mentions) } }

find_related_drugs_by_pubmed_journals(g, target) ==
    LET normalized_target_drug == str_strip(str_lower(target))
    IN IF g = << >> THEN { }
       ELSE IF ~HasEntity(g, normalized_target_drug) THEN { }
       ELSE LET target_journals == target_drug_pubmed_journals(g, normalized_target_drug)
            IN IF target_journals = { } THEN { }
               ELSE OtherDrugsIn(g, normalized_target_drug, target_journals)

-----------------------------------------------------------------------------
(* utils.py: parse_date *)

\* the digits that str(int) and strftime write and [0-9] matches
AsciiDigits == chars(<< "0", "1", "2", "3", "4", "5", "6", "7", "8", "9" >>)

\* the characters \d matches in a str pattern, c.isdecimal(): in each range the values
\* go from 0 to 9, once or several times over
DigitRanges ==
    { << 48, 57 >>, << 1632, 1641 >>, << 1776, 1785 >>, << 1984, 1993 >>, << 2406, 2415 >>,
      << 2534, 2543 >>, << 2662, 2671 >>, << 2790, 2799 >>, << 2918, 2927 >>, << 3046, 3055 >>,
      << 3174, 3183 >>, << 3302, 3311 >>, << 3430, 3439 >>, << 3558, 3567 >>, << 3664, 3673 >>,
      << 3792, 3801 >>, << 3872, 3881 >>, << 4160, 4169 >>, << 4240, 4249 >>, << 6112, 6121 >>,
      << 6160, 6169 >>, << 6470, 6479 >>, << 6608, 6617 >>, << 6784, 6793 >>, << 6800, 6809 >>,
      << 6992, 7001 >>, << 7088, 7097 >>, << 7232, 7241 >>, << 7248, 7257 >>,
      << 42528, 42537 >>, << 43216, 43225 >>, << 43264, 43273 >>, << 43472, 43481 >>,
      << 43504, 43513 >>, << 43600, 43609 >>, << 44016, 44025 >>, << 65296, 65305 >>,
      << 66720, 66729 >>, << 68912, 68921 >>, << 69734, 69743 >>, << 69872, 69881 >>,
      << 69942, 69951 >>, << 70096, 70105 >>, << 70384, 70393 >>, << 70736, 70745 >>,
      << 70864, 70873 >>, << 71248, 71257 >>, << 71360, 71369 >>, << 71472, 71481 >>,
      << 71904, 71913 >>, << 72016, 72025 >>, << 72784, 72793 >>, << 73040, 73049 >>,
      << 73120, 73129 >>, << 92768, 92777 >>, << 92864, 92873 >>, << 93008, 93017 >>,
      << 120782, 120831 >>, << 123200, 123209 >>, << 123632, 123641 >>, << 125264, 125273 >>,
      << 130032, 130041 >> }

DigitChars == CodePoints(DigitRanges)

IsDigit(c) == c \in DigitChars
\* int(c) for a digit
DigitValue(c) ==
    LET r == CHOOSE r \in DigitRanges : r[1] <= c /\ c <= r[2] IN (c - r[1]) % 10

\* the character at position i of s, -1 past the end
At(s, i) == IF i \in 1..Len(s) THEN s[i] ELSE -1

\* str(x): a str is itself; the int of the model is 7
py_str(x) ==
    CASE x.type = "str"      -> x.v
      [] x.type = "NoneType" -> chars(<< "N", "o", "n", "e" >>)
      [] OTHER               -> chars(<< "7" >>)

\* config.UNKNOWN_DATE_PLACEHOLDER
UNKNOWN_DATE_PLACEHOLDER == chars(<< "U", "N", "K", "N", "O", "W", "N", "_", "D", "A", "T", "E" >>)

\* s.replace(',', '')
remove_commas(s) ==
    LET NotComma(c) == c # ord(",") IN SelectSeq(s, NotComma)

\* the month names of the C locale, which %B matches in any case; %b matches their
\* first three letters
MonthNames ==
    << chars(<< "j", "a", "n", "u", "a", "r", "y" >>),
       chars(<< "f", "e", "b", "r", "u", "a", "r", "y" >>),
       chars(<< "m", "a", "r", "c", "h" >>),
       chars(<< "a", "p", "r", "i", "l" >>),
       chars(<< "m", "a", "y" >>),
       chars(<< "j", "u", "n", "e" >>),
       chars(<< "j", "u", "l", "y" >>),
       chars(<< "a", "u", "g", "u", "s", "t" >>),
       chars(<< "s", "e", "p", "t", "e", "m", "b", "e", "r" >>),
       chars(<< "o", "c", "t", "o", "b", "e", "r" >>),
       chars(<< "n", "o", "v", "e", "m", "b", "e", "r" >>),
       chars(<< "d", "e", "c", "e", "m", "b", "e", "r" >>) >>
MonthAbbrs == [i \in 1..Len(MonthNames) |-> SubSeq(MonthNames[i], 1, 3)]

\* the date patterns in month-first order for slash dates
formats_to_try_month_first ==
    << << "%m", "/", "%d", "/", "%Y" >>,
       << "%d", "/", "%m", "/", "%Y" >>,
       << "%Y", "-", "%m", "-", "%d" >>,
       << "%Y", "-", "%d", "-", "%m" >>,
       << "%d", " ", "%B", " ", "%Y" >>,
       << "%B", " ", "%d", " ", "%Y" >>,
       << "%d", " ", "%b", " ", "%Y" >>,
       << "%b", " ", "%d", " ", "%Y" >> >>

\* the date patterns with year-day-month ahead of year-month-day
formats_to_try_day_first ==
    << << "%d", "/", "%m", "/", "%Y" >>,
       << "%m", "/", "%d", "/", "%Y" >>,
       << "%Y", "-", "%d", "-", "%m" >>,
       << "%Y", "-", "%m", "-", "%d" >>,
       << "%d", " ", "%B", " ", "%Y" >>,
       << "%B", " ", "%d", " ", "%Y" >>,
       << "%d", " ", "%b", " ", "%Y" >>,
       << "%b", " ", "%d", " ", "%Y" >> >>

\* formats_to_try, each format as its directives and literal characters
formats_to_try ==
    << << "%d", "/", "%m", "/", "%Y" >>,
       << "%m", "/", "%d", "/", "%Y" >>,
       << "%Y", "-", "%m", "-", "%d" >>,
       << "%Y", "-", "%d", "-", "%m" >>,
       << "%d", " ", "%B", " ", "%Y" >>,
       << "%B", " ", "%d", " ", "%Y" >>,
       << "%d", " ", "%b", " ", "%Y" >>,
       << "%b", " ", "%d", " ", "%Y" >> >>

\* [1-9]
OneToNine == { AsciiDigits[i] : i \in 2..10 }

\* what %d can match at pos, in the order of its alternatives
\* 3[0-1]|[1-2]\d|0[1-9]|[1-9]| [1-9]
DayCandidates(s, pos) ==
    LET c1 == At(s, pos)
        c2 == At(s, pos + 1)
        two == \/ c1 = ord("3") /\ c2 \in { ord("0"), ord("1") }
               \/ c1 \in { ord("1"), ord("2") } /\ IsDigit(c2)
               \/ c1 = ord("0") /\ c2 \in OneToNine
        one == c1 \in OneToNine
        spaced == c1 = ord(" ") /\ c2 \in OneToNine
    IN (IF two THEN << [len |-> 2, val |-> 10 * DigitValue(c1) + DigitValue(c2)] >>
        ELSE << >>)
       \o (IF one THEN << [len |-> 1, val |-> DigitValue(c1)] >> ELSE << >>)
       \o (IF spaced THEN << [len |-> 2, val |-> DigitValue(c2)] >> ELSE << >>)

\* what %m can match at pos: 1[0-2]|0[1-9]|[1-9]
MonthCandidates(s, pos) ==
    LET c1 == At(s, pos)
        c2 == At(s, pos + 1)
        two == \/ c1 = ord("1") /\ c2 \in { ord("0"), ord("1"), ord("2") }
               \/ c1 = ord("0") /\ c2 \in OneToNine
        one == c1 \in OneToNine
    IN (IF two THEN << [len |-> 2, val |-> 10 * DigitValue(c1) + DigitValue(c2)] >>
        ELSE << >>)
       \o (IF one THEN << [len |-> 1, val |-> DigitValue(c1)] >> ELSE << >>)

\* what %Y can match at pos: \d\d\d\d
YearCandidates(s, pos) ==
    IF \A i \in pos..(pos + 3) : IsDigit(At(s, i))
    THEN << [len |-> 4,
             val |-> 1000 * DigitValue(s[pos]) + 100 * DigitValue(s[pos + 1])
                     + 10 * DigitValue(s[pos + 2]) + DigitValue(s[pos + 3])] >>
    ELSE << >>

\* what %B or %b can match at pos: one of the names, in any case.  No name starts
\* another one, so at most one alternative matches.
NameCandidates(names, s, pos) ==
    LET Here(i) == /\ pos + Len(names[i]) - 1 <= Len(s)
                   /\ str_lower(SubSeq(s, pos, pos + Len(names[i]) - 1)) = names[i]
    IN IF \E i \in 1..Len(names) : Here(i)
       THEN LET i == CHOOSE i \in 1..Len(names) : Here(i)
            IN << [len |-> Len(names[i]), val |-> i] >>
       ELSE << >>

\* what a blank of the format can match at pos: \s+, the longest run first
RECURSIVE SpaceCandidates(_, _, _)
SpaceCandidates(s, pos, n) ==
    IF At(s, pos + n) \in Whitespace
    THEN SpaceCandidates(s, pos, n + 1) \o << [len |-> n + 1, val |-> 0] >>
    ELSE << >>

Candidates(token, s, pos) ==
    CASE token = "%d" -> DayCandidates(s, pos)
      [] token = "%m" -> MonthCandidates(s, pos)
      [] token = "%Y" -> YearCandidates(s, pos)
      [] token = "%B" -> NameCandidates(MonthNames, s, pos)
      [] token = "%b" -> NameCandidates(MonthAbbrs, s, pos)
      [] token = " "  -> SpaceCandidates(s, pos, 0)
      [] OTHER        -> IF At(s, pos) = ord(token) THEN << [len |-> 1, val |-> 0] >>
                         ELSE << >>

\* the groups of the match after token has matched val
Bind(found, token, val) ==
    CASE token = "%d"                   -> [found EXCEPT !.d = val]
      [] token \in { "%m", "%B", "%b" } -> [found EXCEPT !.m = val]
      [] token = "%Y"                   -> [found EXCEPT !.Y = val]
      [] OTHER                          -> found

\* the matches of the format's regular expression that start at the first
\* character, in the order in which backtracking finds them
RECURSIVE MatchesFrom(_, _, _, _, _), MatchesVia(_, _, _, _, _, _)
MatchesFrom(format, k, s, pos, found) ==
    IF k > Len(format) THEN << [found EXCEPT !.end = pos - 1] >>
    ELSE MatchesVia(format, k, s, pos, found, Candidates(format[k], s, pos))
MatchesVia(format, k, s, pos, found, cands) ==
    IF cands = << >> THEN << >>
    ELSE MatchesFrom(format, k + 1, s, pos + cands[1].len,
                     Bind(found, format[k], cands[1].val))
         \o MatchesVia(format, k, s, pos, found, Tail(cands))

IsLeap(year) == year % 4 = 0 /\ (year % 100 # 0 \/ year % 400 = 0)
DaysIn(month, year) ==
    CASE month = 2 -> IF IsLeap(year) THEN 29 ELSE 28
      [] month \in { 4, 6, 9, 11 } -> 30
      [] OTHER -> 31

\* the ValueError of strptime
NoDate == [ok |-> FALSE, year |-> 0, month |-> 0, day |-> 0]

\* the date of a match: ValueError when unconverted data remains or when there is
\* no such day
DateOfMatch(found, s) ==
    IF \/ found.end # Len(s)
       \/ found.Y < 1
       \/ found.d > DaysIn(found.m, found.Y)
    THEN NoDate
    ELSE [ok |-> TRUE, year |-> found.Y, month |-> found.m, day |-> found.d]

\* the date of the first match: ValueError when the expression does not match
DateOfFirstMatch(matches, s) ==
    IF matches = << >> THEN NoDate ELSE DateOfMatch(matches[1], s)

\* datetime.strptime(s, format): the date, or ValueError when the expression does
\* not match, when unconverted data remains, or when there is no such day
strptime(s, format) ==
    DateOfFirstMatch(MatchesFrom(format, 1, s, 1, [d |-> 0, m |-> 0, Y |-> 0, end |-> 0]), s)

\* the decimal digits of n, without padding
RECURSIVE Decimal(_)
Decimal(n) ==
    IF n < 10 THEN << AsciiDigits[n + 1] >>
    ELSE Append(Decimal(n \div 10), AsciiDigits[(n % 10) + 1])

\* n on two digits
TwoDigits(n) == << AsciiDigits[(n \div 10) + 1], AsciiDigits[(n % 10) + 1] >>

\* date.strftime("%Y-%m-%d")
strftime(date) ==
    Decimal(date.year) \o chars(<< "-" >>) \o TwoDigits(date.month) \o chars(<< "-" >>)
       \o TwoDigits(date.day)

\* the test of line 46 as "if date_str is None"
IsNoneDate(x) == x.type = "NoneType"

\* if not date_str or not isinstance(date_str, str)
IsUnusableDate(x) == ~Truthy(x) \/ x.type # "str"

\* a fallback that returns date_str as it came
FallbackOriginal(original, processed_date_str) == original

\* return processed_date_str
Fallback(original, processed_date_str) == processed_date_str

\* for fmt in formats_to_try: try: return strptime(...).strftime(...) except ValueError
RECURSIVE TryFormats(_, _, _), Formatted(_, _, _, _)
TryFormats(original, processed_date_str, k) ==
    IF k > Len(formats_to_try)
    THEN [format |-> 0, result |-> Fallback(original, processed_date_str)]
    ELSE Formatted(original, processed_date_str, k,
                   strptime(processed_date_str, formats_to_try[k]))

\* the body of the loop for format k, date being what strptime gave: the date is
\* returned in ISO form, a ValueError goes on to the next format
Formatted(original, processed_date_str, k, date) ==
    IF date.ok THEN [format |-> k, result |-> strftime(date)]
    ELSE TryFormats(original, processed_date_str, k + 1)

parse_date(x) ==
    IF IsUnusableDate(x) THEN [format |-> 0, result |-> UNKNOWN_DATE_PLACEHOLDER]
    ELSE LET processed_date_str == str_strip(remove_commas(py_str(x)))
         IN IF processed_date_str = << >>
            THEN [format |-> 0, result |-> UNKNOWN_DATE_PLACEHOLDER]
            ELSE TryFormats(py_str(x), processed_date_str, 1)

-----------------------------------------------------------------------------
(* utils.py: normalize_text *)

\* str(text).lower().strip() if text else ""
normalize_text(x) ==
    IF Truthy(x) THEN str_strip(str_lower(py_str(x))) ELSE << >>

-----------------------------------------------------------------------------
(* data_loader.py: the record made of one row, and the four loaders *)

\* a Python dict with the given keys and values: a row of csv.DictReader, or an
\* item of the list json5.load returns
Dict(fields) == [type |-> "dict", v |-> fields]

\* row.get(key): None for a key the row does not hold
Get(row, key) == IF key \in DOMAIN row.v THEN row.v[key] ELSE PyNone

\* config.UNKNOWN_JOURNAL_PLACEHOLDER
UNKNOWN_JOURNAL_PLACEHOLDER ==
    chars(<< "u", "n", "k", "n", "o", "w", "n", "_", "j", "o", "u", "r", "n", "a", "l" >>)

\* f'{source_type}_item_{item_index}_no_id'
placeholder_id(source_type, item_index) ==
    str_chars(source_type) \o chars(<< "_", "i", "t", "e", "m", "_" >>) \o Decimal(item_index)
       \o chars(<< "_", "n", "o", "_", "i", "d" >>)

\* the mistaken id that is kept as it was written, blank or not
pub_id_str_as_written(pub_id, source_type, item_index) ==
    IF pub_id.type # "NoneType" THEN py_str(pub_id)
    ELSE placeholder_id(source_type, item_index)

\* pub_id_str = str(pub_id).strip() if pub_id is not None else ""
\* if not pub_id_str: pub_id_str = <placeholder>
pub_id_str(pub_id, source_type, item_index) ==
    LET stripped == IF pub_id.type # "NoneType" THEN str_strip(py_str(pub_id)) ELSE << >>
    IN IF stripped = << >> THEN placeholder_id(source_type, item_index) ELSE stripped

\* normalized_journal = normalize_text(journal)
\* if not normalized_journal: normalized_journal = UNKNOWN_JOURNAL_PLACEHOLDER
normalized_journal(journal) ==
    IF normalize_text(journal) = << >> THEN UNKNOWN_JOURNAL_PLACEHOLDER
    ELSE normalize_text(journal)

\* BaseDataLoader._create_publication_entry
create_publication_entry(pub_id, title, original_title, journal, date, source_type, item_index) ==
    [id             |-> pub_id_str(pub_id, source_type, item_index),
     title          |-> normalize_text(title),
     original_title |-> IF Truthy(original_title) THEN original_title ELSE Str(<< >>),
     journal        |-> normalized_journal(journal),
     date           |-> parse_date(date).result,
     source_type    |-> source_type]

\* a file on disk: whether open() finds it, the rows or items it holds, and the
\* position of the row at which reading raises (a decode or parse error), 0 if
\* reading never raises
File(exists, rows, error_at) ==
    [exists |-> exists, rows |-> rows, error_at |-> error_at]

\* the path names no file
NoFile == File(FALSE, << >>, 0)

\* the rows the reader hands out before it raises, all rows if it never does
RowsRead(file) ==
    IF file.error_at = 0 THEN file.rows ELSE SubSeq(file.rows, 1, file.error_at - 1)

\* for i, row in enumerate(reader): the record of row i + 1, with item_index = i
EntriesOf(rows, title_key, source_type) ==
    [n \in 1..Len(rows) |->
        create_publication_entry(Get(rows[n], "id"), Get(rows[n], title_key),
                                 Get(rows[n], title_key), Get(rows[n], "journal"),
                                 Get(rows[n], "date"), source_type, n - 1)]

\* if pub_entry["title"]: publications.append(pub_entry)
WithTitle(entries) ==
    LET HasTitle(pub) == pub.title # << >> IN SelectSeq(entries, HasTitle)

\* the mistaken loop that adds a name whether it is empty or not
DrugsLoader_drugs_with_empty_names(file) ==
    IF ~file.exists THEN { }
    ELSE { normalize_text(Get(RowsRead(file)[n], "drug")) :
              n \in 1..Len(RowsRead(file)) }

\* DrugsLoader.load_data: the set drugs when the function returns, whether the
\* loop ended or an exception stopped it
DrugsLoader_drugs(file) ==
    IF ~file.exists THEN { }
    ELSE { normalize_text(Get(RowsRead(file)[n], "drug")) :
              n \in 1..Len(RowsRead(file)) } \ { << >> }

\* list(drugs): the names of the set in some order
ListsOf(names) ==
    { l \in [1..Cardinality(names) -> names] : Range(l) = names }

\* PubMedCSVLoader.load_data
PubMedCSVLoader_load_data(file) ==
    IF ~file.exists THEN << >>
    ELSE WithTitle(EntriesOf(RowsRead(file), "title", "pubmed_csv"))

\* the items before the first one that is no dict, on which item.get raises
\* AttributeError
RECURSIVE ItemsRead(_)
ItemsRead(data) ==
    IF data = << >> \/ data[1].type # "dict" THEN << >>
    ELSE << data[1] >> \o ItemsRead(Tail(data))

\* PubMedJSONLoader.load_data: json5.load reads and parses the whole file before
\* the first item is looked at
PubMedJSONLoader_load_data(file) ==
    IF ~file.exists \/ file.error_at # 0 THEN << >>
    ELSE WithTitle(EntriesOf(ItemsRead(file.rows), "title", "pubmed_json"))

\* ClinicalTrialsCSVLoader.load_data: every row is kept
ClinicalTrialsCSVLoader_load_data(file) ==
    IF ~file.exists THEN << >>
    ELSE EntriesOf(RowsRead(file), "scientific_title", "clinical_trials_csv")

\* the mistaken end of load_all_publications_data that returns all_pubs
every_pub(all_pubs) == all_pubs

\* valid_pubs = [pub for pub in all_pubs if pub.get("title")]
valid_pubs(all_pubs) ==
    LET HasTitle(pub) == pub.title # << >> IN SelectSeq(all_pubs, HasTitle)

\* load_all_publications_data
load_all_publications_data(pubmed_csv, pubmed_json, clinical_trials) ==
    valid_pubs(PubMedCSVLoader_load_data(pubmed_csv)
                  \o PubMedJSONLoader_load_data(pubmed_json)
                  \o ClinicalTrialsCSVLoader_load_data(clinical_trials))

-----------------------------------------------------------------------------
(* Inputs *)

\* what a loader puts into a record besides title and journal
PubmedSource ==
    [id |-> "1", date |-> "2020-01-01", original_title |-> "A Study",
     source_type |-> "pubmed_csv"]
TrialSource ==
    [id |-> "NCT01", date |-> "2021-02-02", original_title |-> "A Trial",
     source_type |-> "clinical_trials_csv"]

Pub(title, journal, src) ==
    [id |-> src.id, title |-> title, original_title |-> src.original_title,
     journal |-> journal, date |-> src.date, source_type |-> src.source_type]

\* entity names: "", "a", "b"
DrugPool == { << >>, chars(<< "a" >>), chars(<< "b" >>) }

\* titles "a", "b", "a b"
TitlePool == { Str(chars(<< "a" >>)), Str(chars(<< "b" >>)), Str(chars(<< "a", " ", "b" >>)) }

JournalPool == { "journal a", "journal b" }

\* every title in every journal from the PubMed source, and the one-name titles
\* from the trial source as well
WellFormedPubs ==
    { Pub(t, j, PubmedSource) : t \in TitlePool, j \in JournalPool }
    \cup { Pub(Str(chars(<< c >>)), j, TrialSource) : c \in { "a", "b" }, j \in JournalPool }

\* records the builder skips (no title, empty title, title of another type) and
\* records whose title matches but whose journal is absent or unhashable
MalformedPubs ==
    { Pub(PyNone, "journal a", PubmedSource),
      Pub(Str(<< >>), "journal a", PubmedSource),
      Pub(PyInt, "journal a", PubmedSource),
      Pub(Str(chars(<< "a" >>)), MISSING, PubmedSource),
      Pub(Str(chars(<< "a" >>)), UNHASHABLE, PubmedSource) }

PubPool == WellFormedPubs \cup MalformedPubs

\* the smaller pool of the two-call specification
RerunPubPool ==
    { Pub(t, j, PubmedSource) : t \in { Str(chars(<< "a" >>)), Str(chars(<< "a", " ", "b" >>)) },
                                j \in JournalPool }
    \cup { Pub(Str(chars(<< "b" >>)), "journal a", TrialSource),
           Pub(PyNone, "journal a", PubmedSource),
           Pub(Str(chars(<< "a" >>)), MISSING, PubmedSource),
           Pub(Str(chars(<< "a" >>)), UNHASHABLE, PubmedSource) }

\* a record of the JSON PubMed loader
JsonSource ==
    [id |-> "2", date |-> "2020-03-03", original_title |-> "A Paper",
     source_type |-> "pubmed_json"]

\* the pool of the query specification: both names alone and together, from the
\* three kinds of source, plus a record that is skipped and one that fails
QueryPubPool ==
    { Pub(Str(chars(<< "a" >>)), "journal a", PubmedSource),
      Pub(Str(chars(<< "a" >>)), "journal b", PubmedSource),
      Pub(Str(chars(<< "a" >>)), "journal a", TrialSource),
      Pub(Str(chars(<< "b" >>)), "journal a", JsonSource),
      Pub(Str(chars(<< "b" >>)), "journal a", TrialSource),
      Pub(Str(chars(<< "a", " ", "b" >>)), "journal a", JsonSource),
      Pub(Str(chars(<< "a", " ", "b" >>)), "journal b", TrialSource),
      Pub(PyNone, "journal a", PubmedSource),
      Pub(Str(chars(<< "a" >>)), MISSING, PubmedSource),
      Pub(Str(chars(<< "a" >>)), UNHASHABLE, PubmedSource) }

\* the pool of the partitioned build: the two names alone and together, a record
\* that is skipped and one that fails
PartitionPubPool ==
    { Pub(Str(chars(<< "a" >>)), "journal a", PubmedSource),
      Pub(Str(chars(<< "a", " ", "b" >>)), "journal a", PubmedSource),
      Pub(Str(chars(<< "b" >>)), "journal b", TrialSource),
      Pub(PyNone, "journal a", PubmedSource),
      Pub(Str(chars(<< "a" >>)), MISSING, PubmedSource),
      Pub(Str(chars(<< "a" >>)), UNHASHABLE, PubmedSource) }

\* the names asked about: "a", " A", "B " and two names that no graph holds
TargetPool ==
    { chars(<< "a" >>), chars(<< " ", "A" >>), chars(<< "B", "\r" >>), chars(<< "c" >>),
      << CapitalBWithHook >> }

\* the fields dates are made of: days and months with and without a leading zero
\* or blank, numbers that are neither, a leap year and a common year, month names
\* in full and abbreviated in several cases, and a word that is no field
DateFields ==
    { chars(<< "1" >>),
      chars(<< "0", "1" >>),
      chars(<< "0", "2" >>),
      chars(<< "1", "3" >>),
      chars(<< "3", "1" >>),
      chars(<< " ", "2" >>),
      chars(<< "2", "0", "2", "0" >>),
      chars(<< "2", "0", "2", "1" >>),
      chars(<< "J", "a", "n", "u", "a", "r", "y" >>),
      chars(<< "M", "a", "y" >>),
      chars(<< "F", "E", "B" >>),
      chars(<< "1", "s", "t" >>) }

\* what stands between the fields
DateSeparators == { ord("/"), ord("-"), ord(" ") }

\* three fields with the same separator, with or without a comma after the second
\* field, with or without a blank before and two blanks after
DateLike ==
    { pad \o f1 \o << sep >> \o f2 \o comma \o << sep >> \o f3 \o pad \o pad :
        f1 \in DateFields, f2 \in DateFields, f3 \in DateFields,
        sep \in DateSeparators, comma \in { << >>, chars(<< "," >>) },
        pad \in { << >>, chars(<< " " >>) } }

\* no date, a value of another type, strings with nothing in them, the dates of
\* the tests of parse_date, and dates with characters beyond ASCII
OtherDates ==
    { PyNone, PyInt,
      Str(<< >>),
      Str(chars(<< "," >>)),
      Str(chars(<< " ", ",", " " >>)),
      Str(chars(<< " ", " " >>)),
      Str(chars(<< "0", "3", "/", "1", "5", "/", "2", "0", "2", "1" >>)),
      Str(chars(<< "1", "5", "/", "0", "3", "/", "2", "0", "2", "1" >>)),
      Str(chars(<< "3", "2", "/", "0", "1", "/", "2", "0", "2", "0" >>)),
      Str(chars(<< "3", "1", "/", "0", "4", "/", "2", "0", "2", "0" >>)),
      Str(chars(<< "2", "9", "/", "0", "2", "/", "2", "0", "2", "0" >>)),
      Str(chars(<< "2", "9", "/", "0", "2", "/", "2", "0", "2", "1" >>)),
      Str(chars(<< "n", "o", "t", "-", "a", "-", "d", "a", "t", "e" >>)),
      Str(chars(<< " ", " ", "1", "s", "t", " ", "M", "a", "y", ",", " ", "2", "0", "2", "3", " ", " " >>)),
      Str(chars(<< "2", "0", "2", "2", "-", "0", "7", "-", "2", "5" >>)),
      Str(chars(<< "2", "0", "2", "2", "-", "2", "5", "-", "0", "7" >>)),
      Str(chars(<< "2", "7", " ", "A", "p", "r", " ", "2", "0", "2", "0" >>)),
      Str(chars(<< "A", "p", "r", " ", "2", "7", " ", "2", "0", "2", "0" >>)),
      Str(chars(<< "J", "a", "n", "u", "a", "r", "y", " ", "1", ",", " ", "2", "0", "2", "0" >>)),
      Str(chars(<< "1", " ", "J", "a", "n", "u", "a", "r", "y", " ", "2", "0", "2", "0" >>)),
      Str(chars(<< "1", " ", "\r", "J", "a", "n", "u", "a", "r", "y", " ", "2", "0", "2", "0" >>)),
      Str(<< BengaliTwo, BengaliZero, BengaliTwo, BengaliZero >>
             \o chars(<< "-", "0", "1", "-", "0", "1" >>)),
      Str(<< ord("1"), BengaliTwo >> \o chars(<< "/", "0", "1", "/", "2", "0", "2", "0" >>)),
      Str(<< ord("0"), BengaliTwo >> \o chars(<< "/", "0", "1", "/", "2", "0", "2", "0" >>)),
      Str(<< CapitalBWithHook >> \o chars(<< "x", "x" >>)),
      Str(chars(<< "1", " " >>) \o << LongS >> \o chars(<< "e", "p", " ", "2", "0", "2", "0" >>)),
      Str(chars(<< "1", " ", "A", "P", "R" >>) \o << CapitalIWithDot >>
             \o chars(<< "L", " ", "2", "0", "2", "0" >>)),
      Str(chars(<< "1", " " >>) \o << EmQuad >> \o chars(<< "M", "A", "Y", " ", "2", "0", "2", "0" >>)),
      Str(chars(<< " ", "1", " ", "J", "a", "n", "u", "a", "r", "y", " ", "2", "0", "2", "0", " " >>)) }

DatePool == { Str(cs) : cs \in DateLike } \cup OtherDates

\* the values handed to _create_publication_entry: ids that are absent, empty,
\* blank, padded, plain and of another type; journals likewise
SourceTypes == { "pubmed_csv", "pubmed_json", "clinical_trials_csv" }

PubIdPool ==
    { PyNone, Str(<< >>), Str(chars(<< " ", "\t" >>)), Str(chars(<< " ", "1", "2", " " >>)),
      Str(chars(<< "N", "1" >>)), PyInt }

JournalValuePool ==
    { PyNone, Str(<< >>), Str(chars(<< " " >>)), Str(chars(<< " ", "J", " ", "A" >>)), PyInt,
      Str(<< EmQuad, CapitalBWithHook >>), Str(<< EmQuad >>) }

TitleValuePool == { PyNone, Str(chars(<< "A", " ", "b", " " >>)) }

DateValuePool == { PyNone, Str(chars(<< "1", "/", "2", "/", "2", "0", "2", "0" >>)) }

\* positions of a row in its file, with one and with two digits
ItemIndexPool == (0..MaxRows) \cup { 10 }

EntryArgsPool ==
    [pub_id : PubIdPool, title : TitleValuePool, journal : JournalValuePool,
     date : DateValuePool, source_type : SourceTypes, item_index : ItemIndexPool]

\* the rows of drugs.csv: names in both cases, padded on either side, empty,
\* blank, and a row too short to have the column (restval None)
DrugRow(drug) == Dict([atccode |-> Str(chars(<< "A", "0", "1" >>)), drug |-> drug])

DrugRowPool ==
    { DrugRow(d) : d \in { Str(chars(<< "A" >>)), Str(chars(<< "a", " " >>)), Str(chars(<< " ", "B" >>)),
                           Str(<< >>), Str(chars(<< " " >>)), PyNone,
                           Str(<< CapitalBWithHook, EmQuad >>) } }

\* the rows of pubmed.csv: a full row, a row of blanks, a short row
PubRow(id, title, journal, date) ==
    Dict([id |-> id, title |-> title, journal |-> journal, date |-> date])

FullRow ==
    PubRow(Str(chars(<< "1" >>)), Str(chars(<< "A", " ", "b" >>)), Str(chars(<< "J", " " >>)),
           Str(chars(<< "1", "/", "2", "/", "2", "0", "2", "0" >>)))
BlankRow == PubRow(Str(chars(<< " " >>)), Str(chars(<< " " >>)), Str(<< >>), Str(<< >>))
ShortRow == PubRow(Str(chars(<< "2" >>)), Str(chars(<< "b" >>)), PyNone, PyNone)

PubmedCsvRowPool == { FullRow, BlankRow, ShortRow }

\* the items of pubmed.json: an item with an int id and no date, an item with
\* null id and title, a full item, and an item that is a string
NotADict == Str(chars(<< "x" >>))

PubmedJsonItemPool ==
    { Dict([id |-> PyInt, title |-> Str(chars(<< "b" >>)), journal |-> Str(chars(<< "J", " " >>))]),
      Dict([id |-> PyNone, title |-> PyNone, journal |-> Str(chars(<< "J", " " >>)),
            date |-> Str(<< >>)]),
      FullRow,
      NotADict }

\* the rows of clinical_trials.csv, with and without a scientific title
TrialRow(id, scientific_title, journal, date) ==
    Dict([id |-> id, scientific_title |-> scientific_title, journal |-> journal,
          date |-> date])

TitledTrialRow ==
    TrialRow(Str(chars(<< "N", "1" >>)), Str(<< EmQuad, CapitalBWithHook, CapitalIWithDot >>),
             Str(chars(<< "J", " " >>)),
             Str(chars(<< "1", "/", "2", "/", "2", "0", "2", "0" >>)))
UntitledTrialRow == TrialRow(Str(chars(<< "N", "2" >>)), Str(<< EmQuad >>), PyNone, PyNone)
EmptyTrialRow == TrialRow(Str(<< >>), Str(<< >>), Str(<< >>), Str(<< >>))

TrialRowPool == { TitledTrialRow, UntitledTrialRow, EmptyTrialRow }

\* the files made of the rows of a pool: absent, or present with up to MaxRows
\* rows, read to the end or up to an error at any row or at the end
CsvFilesOf(pool) ==
    { NoFile } \cup
    UNION { { File(TRUE, rows, e) : e \in 0..(Len(rows) + 1) } :
               rows \in SeqsUpTo(pool, MaxRows) }

\* the same for the JSON file, which parses as a whole or not at all
JsonFilesOf(pool) ==
    { NoFile } \cup
    { File(TRUE, rows, e) : rows \in SeqsUpTo(pool, MaxRows), e \in { 0, 1 } }

\* the files read without error
SoundFilesOf(pool) ==
    { NoFile } \cup { File(TRUE, rows, 0) : rows \in SeqsUpTo(pool, MaxRows) }

\* the input files as config.py names them, none of them present
NoFiles ==
    [drugs |-> NoFile, pubmed_csv |-> NoFile, pubmed_json |-> NoFile,
     clinical_trials |-> NoFile]

\* the functions of data_loader.py that read files
SingleLoaders ==
    { "DrugsLoader", "PubMedCSVLoader", "PubMedJSONLoader", "ClinicalTrialsCSVLoader" }

\* the files a call of load_all_publications_data is tried on
AllPublicationsFiles ==
    { [NoFiles EXCEPT !.pubmed_csv = c, !.pubmed_json = j, !.clinical_trials = t] :
        c \in SoundFilesOf({ FullRow, BlankRow }),
        j \in SoundFilesOf({ FullRow, NotADict }),
        t \in CsvFilesOf({ TitledTrialRow, UntitledTrialRow }) }

\* rows without a date, which name both entities of the vocabulary
UndatedRow == PubRow(Str(chars(<< "1" >>)), Str(chars(<< "A", " ", "b" >>)), Str(chars(<< "J", " " >>)), PyNone)
UndatedTrialRow ==
    TrialRow(Str(chars(<< "N", "1" >>)), Str(chars(<< "A", " ", "b" >>)), Str(chars(<< "J", " " >>)),
             Str(<< >>))

\* the input files run_pipeline is tried on: a vocabulary of up to two names, in
\* a file that may be absent, empty or unreadable from its first row; records
\* that name both entities, one of them or none, from two of the sources
PipelineFiles ==
    { [NoFiles EXCEPT !.drugs = d, !.pubmed_csv = c, !.clinical_trials = t] :
        d \in SoundFilesOf({ DrugRow(Str(chars(<< "A" >>))), DrugRow(Str(chars(<< " ", "B" >>))) })
                 \cup { File(TRUE, << DrugRow(Str(chars(<< "A" >>))) >>, 1) },
        c \in SoundFilesOf({ UndatedRow, ShortRow }),
        t \in { NoFile, File(TRUE, << UntitledTrialRow, UndatedTrialRow >>, 0) } }

\* the characters of the texts that the records of these files hold
text_chars(s) ==
    CASE s = "1" -> chars(<< "1" >>)
      [] s = "2" -> chars(<< "2" >>)
      [] s = "N1" -> chars(<< "N", "1" >>)
      [] s = "A b" -> chars(<< "A", " ", "b" >>)
      [] s = "b" -> chars(<< "b" >>)
      [] s = "j" -> chars(<< "j" >>)
      [] s = "unknown_journal" -> UNKNOWN_JOURNAL_PLACEHOLDER
      [] s = "UNKNOWN_DATE" -> UNKNOWN_DATE_PLACEHOLDER

PipelineTexts ==
    { "1", "2", "N1", "A b", "b", "j", "unknown_journal", "UNKNOWN_DATE" }

\* the text made of the characters cs
py_text(cs) == CHOOSE s \in PipelineTexts : text_chars(s) = cs

\* the record of a loader as the builder reads it: the title is looked into, the
\* other fields are stored and compared
record_of(pub) ==
    [id |-> py_text(pub.id), title |-> Str(pub.title),
     original_title |-> py_text(pub.original_title.v),
     journal |-> py_text(pub.journal), date |-> py_text(pub.date),
     source_type |-> pub.source_type]

\* target_drug_for_adhoc = "atropine"
target_drug_for_adhoc == chars(<< "a", "t", "r", "o", "p", "i", "n", "e" >>)

\* characters of the texts handed to normalize_text
TextAlphabet == { ord("a"), ord("B"), ord(" "), ord("\r") }

\* no text, a value of another type, every text up to the longest, texts with a
\* capital sigma at the end of a word and elsewhere, and texts with the other
\* characters beyond ASCII
TextPool ==
    { PyNone, PyInt } \cup { Str(cs) : cs \in SeqsUpTo(TextAlphabet, MaxTextLen) }
       \cup { Str(<< CapitalSigma >>), Str(<< ord("a"), CapitalSigma >>),
               Str(<< CapitalSigma, ord("a") >>),
               Str(<< ord(" "), ord("a"), ord("."), CapitalSigma, ord(" ") >>),
               Str(<< CapitalEAcute, CapitalSigma, CapitalSigma >>),
               Str(<< CapitalBWithHook >>), Str(<< CapitalIWithDot >>),
               Str(<< EmQuad, CapitalBWithHook, CapitalIWithDot, EmQuad >>),
               Str(<< BoldCapitalA, LongS >>) }

\* characters of the names and titles the matcher is tried on
Alphabet == { ord("a"), ord("B"), ord(" "), ord(".") }

-----------------------------------------------------------------------------
(* build_drug_mention_graph *)

\* the state all specifications share at the start: no call made yet
Idle ==
    /\ drug_mention_graph = << >>
    /\ di = 1
    /\ pi = 1
    /\ error = ""
    /\ most_prolific_journal = "<unset>"
    /\ run = 1
    /\ first_drugs = << >>
    /\ first_pubs = << >>
    /\ first_graph = << >>
    /\ first_pc = ""
    /\ m_found = FALSE

\* no related-entities query made yet
IdleQuery ==
    /\ target_drug_name = << >>
    /\ related_drugs = { }

\* no partitioned build started
IdleWorkers ==
    /\ workers = << >>
    /\ assembled = << >>

\* no date handed to parse_date, no text to normalize_text
IdleDate ==
    /\ date_str = PyNone
    /\ parsed_date = << >>
    /\ matched_format = 0

IdleText ==
    /\ text_arg = PyNone
    /\ normalized = << >>
    /\ renormalized = << >>

\* no loader called
IdleLoader ==
    /\ entry_args = << >>
    /\ pub_entry = << >>
    /\ call = ""
    /\ files = << >>
    /\ loaded = << >>

\* run_pipeline not started
IdlePipeline ==
    /\ step = ""
    /\ trace = << >>
    /\ output_dir = "absent"
    /\ output_file = "absent"
    /\ save_error = ""

\* drug_mention_graph = {} on entry, with the arguments drawn from the pools
Init ==
    /\ drugs_list \in SeqsUpTo(DrugPool, MaxDrugs)
    /\ publications_list \in SeqsUpTo(PubPool, MaxPubs)
    /\ pc = "build"
    /\ m_entity = << >>
    /\ m_title = << >>
    /\ Idle
    /\ IdleQuery /\ IdleWorkers /\ IdleDate /\ IdleText
    /\ IdleLoader /\ IdlePipeline

InLoop == pc = "build" /\ di <= Len(drugs_list)
InInnerLoop == InLoop /\ drugs_list[di] # << >> /\ pi <= Len(publications_list)

BuildFrame ==
    UNCHANGED << drugs_list, most_prolific_journal, run,
                 first_drugs, first_pubs, first_graph, first_pc,
                 m_entity, m_title, m_found,
                 queryVars, workerVars, dateVars, textVars, loaderVars, pipelineVars >>

\* if not drug_name_normalized: continue
SkipEmptyName ==
    /\ InLoop
    /\ drugs_list[di] = << >>
    /\ di' = di + 1
    /\ UNCHANGED << drug_mention_graph, pi, pc, error >>
    /\ UNCHANGED publications_list
    /\ BuildFrame

\* the title test fails: the record is passed over
SkipRecord ==
    /\ InInnerLoop
    /\ publications_list' = RecordsAfterGet(publications_list, pi)
    /\ ~TitleUsable(publications_list[pi])
    /\ pi' = pi + 1
    /\ UNCHANGED << drug_mention_graph, di, pc, error >>
    /\ BuildFrame

\* re.search finds nothing, with the entity key made before the match test
NoMatchMakesKey ==
    /\ InInnerLoop
    /\ publications_list' = RecordsAfterGet(publications_list, pi)
    /\ TitleUsable(publications_list[pi])
    /\ ~Mentions(drugs_list[di], publications_list[pi])
    /\ drug_mention_graph' = EnsureEntity(drug_mention_graph, drugs_list[di])
    /\ pi' = pi + 1
    /\ UNCHANGED << di, pc, error >>
    /\ BuildFrame

\* re.search finds nothing
NoMatch ==
    /\ InInnerLoop
    /\ publications_list' = RecordsAfterGet(publications_list, pi)
    /\ TitleUsable(publications_list[pi])
    /\ ~Mentions(drugs_list[di], publications_list[pi])
    /\ pi' = pi + 1
    /\ UNCHANGED << drug_mention_graph, di, pc, error >>
    /\ BuildFrame

\* the occurrence is already in graph[drug][journal]
AlreadyPresent(g, e, j, d) ==
    /\ HasEntity(g, e)
    /\ HasJournal(JournalsOf(g, e), j)
    /\ d \in Range(Bucket(g, e, j))

\* the body of "if re.search(...)" is being run for the pair (di, pi): pc is the
\* statement to run next
Inserting == pc \in { "entity_key", "journal_key", "append" }

InsertFrame ==
    /\ UNCHANGED << di, publications_list, error >>
    /\ BuildFrame

\* re.search finds the name and lines 64 to 71 read the fields of the record
ReadFields ==
    /\ InInnerLoop
    /\ publications_list' = RecordsAfterGet(publications_list, pi)
    /\ Mentions(drugs_list[di], publications_list[pi])
    /\ ErrorOf(publications_list[pi]) # "KeyError"
    /\ pc' = "entity_key"
    /\ UNCHANGED << drug_mention_graph, di, pi, error >>
    /\ BuildFrame

\* re.search finds the name and a field of the record is absent: the KeyError of
\* lines 64 to 70 leaves the function
RaiseKeyError ==
    /\ InInnerLoop
    /\ publications_list' = RecordsAfterGet(publications_list, pi)
    /\ Mentions(drugs_list[di], publications_list[pi])
    /\ ErrorOf(publications_list[pi]) = "KeyError"
    /\ error' = "KeyError"
    /\ pc' = "raised"
    /\ UNCHANGED << drug_mention_graph, di, pi >>
    /\ BuildFrame

\* lines 73 and 74
MakeEntityKey ==
    /\ pc = "entity_key"
    /\ drug_mention_graph' = EnsureEntity(drug_mention_graph, drugs_list[di])
    /\ pc' = "journal_key"
    /\ UNCHANGED pi
    /\ InsertFrame

\* graph[drug] after lines 76 and 77
WithJournalKey(g, e, j) ==
    [g EXCEPT ![EntityIndex(g, e)].journals = EnsureJournal(@, j)]

\* lines 76 and 77
MakeJournalKey ==
    /\ pc = "journal_key"
    /\ ErrorOf(publications_list[pi]) # "TypeError"
    /\ drug_mention_graph' =
          WithJournalKey(drug_mention_graph, drugs_list[di], publications_list[pi].journal)
    /\ pc' = "append"
    /\ UNCHANGED pi
    /\ InsertFrame

\* line 76 with a journal that cannot be hashed: the TypeError leaves the function,
\* after the entity key was made
RaiseTypeError ==
    /\ pc = "journal_key"
    /\ ErrorOf(publications_list[pi]) = "TypeError"
    /\ error' = "TypeError"
    /\ pc' = "raised"
    /\ UNCHANGED << drug_mention_graph, di, pi, publications_list >>
    /\ BuildFrame

\* graph[drug][journal] after lines 81 and 82
WithMention(g, e, j, d) ==
    LET i == EntityIndex(g, e)
        k == JournalIndex(g[i].journals, j)
    IN [g EXCEPT ![i].journals[k].mentions = AppendIfAbsent(@, d)]

\* lines 81 and 82 for an occurrence that is new to its bucket, followed by a break
\* out of the inner loop
AddMentionThenBreak ==
    /\ pc = "append"
    /\ LET e == drugs_list[di]
           pub == publications_list[pi]
       IN /\ ~AlreadyPresent(drug_mention_graph, e, pub.journal, publication_details(pub))
          /\ drug_mention_graph' =
                WithMention(drug_mention_graph, e, pub.journal, publication_details(pub))
    /\ pi' = Len(publications_list) + 1
    /\ pc' = "build"
    /\ InsertFrame

\* lines 81 and 82 for an occurrence that is new to its bucket
AddMention ==
    /\ pc = "append"
    /\ LET e == drugs_list[di]
           pub == publications_list[pi]
       IN /\ ~AlreadyPresent(drug_mention_graph, e, pub.journal, publication_details(pub))
          /\ drug_mention_graph' =
                WithMention(drug_mention_graph, e, pub.journal, publication_details(pub))
    /\ pi' = pi + 1
    /\ pc' = "build"
    /\ InsertFrame

\* lines 81 and 82 for an occurrence that is already in its bucket
DuplicateMention ==
    /\ pc = "append"
    /\ LET e == drugs_list[di]
           pub == publications_list[pi]
       IN /\ AlreadyPresent(drug_mention_graph, e, pub.journal, publication_details(pub))
          /\ drug_mention_graph' =
                WithMention(drug_mention_graph, e, pub.journal, publication_details(pub))
    /\ pi' = pi + 1
    /\ pc' = "build"
    /\ InsertFrame

\* the inner loop is exhausted: next entity
NextDrug ==
    /\ InLoop
    /\ drugs_list[di] # << >>
    /\ pi > Len(publications_list)
    /\ di' = di + 1
    /\ pi' = 1
    /\ UNCHANGED << drug_mention_graph, pc, error >>
    /\ UNCHANGED publications_list
    /\ BuildFrame

\* return drug_mention_graph
Return ==
    /\ pc = "build"
    /\ di > Len(drugs_list)
    /\ pc' = "returned"
    /\ UNCHANGED << drug_mention_graph, di, pi, error >>
    /\ UNCHANGED publications_list
    /\ BuildFrame

Build ==
    \/ SkipEmptyName
    \/ SkipRecord
    \/ NoMatch
    \/ ReadFields
    \/ RaiseKeyError
    \/ MakeEntityKey
    \/ MakeJournalKey
    \/ RaiseTypeError
    \/ AddMention
    \/ DuplicateMention
    \/ NextDrug
    \/ Return

\* a call of find_journal_with_most_unique_drugs on the returned graph
FindJournal ==
    /\ pc \in { "returned", "queried" }
    /\ most_prolific_journal' = find_journal_with_most_unique_drugs(drug_mention_graph)
    /\ pc' = "queried"
    /\ UNCHANGED << drugs_list, publications_list, drug_mention_graph, di, pi, error,
                    run, first_drugs, first_pubs, first_graph, first_pc,
                    m_entity, m_title, m_found,
                    queryVars, workerVars, dateVars, textVars, loaderVars, pipelineVars >>

Next == Build \/ FindJournal

Spec == Init /\ [][Next]_vars

-----------------------------------------------------------------------------
(* The ad-hoc queries, called any number of times on the returned graph *)

InitQuery ==
    /\ drugs_list \in SeqsUpTo(DrugPool, MaxDrugs)
    /\ publications_list \in SeqsUpTo(QueryPubPool, MaxPubs)
    /\ pc = "build"
    /\ m_entity = << >>
    /\ m_title = << >>
    /\ Idle
    /\ IdleQuery /\ IdleWorkers /\ IdleDate /\ IdleText
    /\ IdleLoader /\ IdlePipeline

\* a related-entities query that makes the key it looks up, as
\* graph.setdefault(normalized_target_drug, {}) would
FindRelatedMakesKey ==
    /\ pc \in { "returned", "queried" }
    /\ \E target \in TargetPool :
          /\ target_drug_name' = target
          /\ related_drugs' =
                find_related_drugs_by_pubmed_journals(drug_mention_graph, target)
          /\ drug_mention_graph' =
                EnsureEntity(drug_mention_graph, str_strip(str_lower(target)))
    /\ UNCHANGED << drugs_list, publications_list, di, pi, pc, error,
                    most_prolific_journal, run, first_drugs, first_pubs, first_graph,
                    first_pc, m_entity, m_title, m_found,
                    workerVars, dateVars, textVars, loaderVars, pipelineVars >>

\* a call of find_related_drugs_by_pubmed_journals on the returned graph
FindRelated ==
    /\ pc \in { "returned", "queried" }
    /\ \E target \in TargetPool :
          /\ target_drug_name' = target
          /\ related_drugs' =
                find_related_drugs_by_pubmed_journals(drug_mention_graph, target)
    /\ UNCHANGED << drugs_list, publications_list, drug_mention_graph, di, pi, pc, error,
                    most_prolific_journal, run, first_drugs, first_pubs, first_graph,
                    first_pc, m_entity, m_title, m_found,
                    workerVars, dateVars, textVars, loaderVars, pipelineVars >>

NextQuery == Build \/ FindJournal \/ FindRelated

SpecQuery == InitQuery /\ [][NextQuery]_vars

-----------------------------------------------------------------------------
(* The build partitioned by entity: after the sequential build, two workers run  *)
(* the loops of build_drug_mention_graph, each over its share of the entity list *)
(* and over the whole record list, each on a graph of its own, one              *)
(* (entity, record) iteration at a time in any interleaving; the two graphs are  *)
(* then put together.                                                            *)

InitPartition ==
    /\ drugs_list \in SeqsUpTo(DrugPool, MaxDrugs)
    /\ publications_list \in SeqsUpTo(PartitionPubPool, MaxPubs)
    /\ pc = "build"
    /\ m_entity = << >>
    /\ m_title = << >>
    /\ Idle
    /\ IdleQuery /\ IdleWorkers /\ IdleDate /\ IdleText
    /\ IdleLoader /\ IdlePipeline

\* the entities of the list that are in names, in list order
Share(drugs, names) ==
    LET Mine(e) == e \in names IN SelectSeq(drugs, Mine)

\* a worker on entry of build_drug_mention_graph: its entities, its share of the
\* list, the positions of its two loops, and its local graph
NewWorker(drugs, names) ==
    [own |-> names, drugs |-> Share(drugs, names), di |-> 1, pi |-> 1,
     graph |-> << >>, pc |-> "build", error |-> ""]

\* one step of the loops of build_drug_mention_graph on a worker's state
LoopStep(wk, pubs) ==
    IF wk.di > Len(wk.drugs) THEN [wk EXCEPT !.pc = "returned"]
    ELSE LET e == wk.drugs[wk.di]
         IN IF e = << >> THEN [wk EXCEPT !.di = @ + 1]
            ELSE IF wk.pi > Len(pubs) THEN [wk EXCEPT !.di = @ + 1, !.pi = 1]
            ELSE LET pub == pubs[wk.pi]
                 IN IF ~Mentions(e, pub) THEN [wk EXCEPT !.pi = @ + 1]
                    ELSE IF ErrorOf(pub) # ""
                    THEN [wk EXCEPT !.pc = "raised",
                                    !.error = ErrorOf(pub),
                                    !.graph = IF ErrorOf(pub) = "TypeError"
                                              THEN EnsureEntity(@, e) ELSE @]
                    ELSE [wk EXCEPT !.graph = InsertMention(@, e, pub.journal,
                                                            publication_details(pub)),
                                    !.pi = @ + 1]

\* the worker is about to read a record
AtRecord(wk, pubs) ==
    /\ wk.di <= Len(wk.drugs)
    /\ wk.drugs[wk.di] # << >>
    /\ wk.pi <= Len(pubs)

PartitionFrame ==
    UNCHANGED << drugs_list, drug_mention_graph, di, pi, error,
                 most_prolific_journal, run, first_drugs, first_pubs, first_graph,
                 first_pc, m_entity, m_title, m_found,
                 queryVars, dateVars, textVars, loaderVars, pipelineVars >>

\* the sequential build is over; the names of the list are split between two workers
Fork ==
    /\ pc \in { "returned", "raised" }
    /\ \E names \in SUBSET Range(drugs_list) :
          workers' = << NewWorker(drugs_list, names),
                        NewWorker(drugs_list, Range(drugs_list) \ names) >>
    /\ pc' = "workers"
    /\ UNCHANGED << publications_list, assembled >>
    /\ PartitionFrame

\* one worker makes one step
Work ==
    /\ pc = "workers"
    /\ \E w \in DOMAIN workers :
          /\ workers[w].pc = "build"
          /\ workers' = [workers EXCEPT ![w] = LoopStep(@, publications_list)]
          /\ publications_list' =
                IF AtRecord(workers[w], publications_list)
                THEN RecordsAfterGet(publications_list, workers[w].pi)
                ELSE publications_list
    /\ UNCHANGED << pc, assembled >>
    /\ PartitionFrame

\* both workers have returned: the graph is made of the entries of both graphs
Assemble ==
    /\ pc = "workers"
    /\ \A w \in DOMAIN workers : workers[w].pc = "returned"
    /\ assembled' = workers[1].graph \o workers[2].graph
    /\ pc' = "assembled"
    /\ UNCHANGED << publications_list, workers >>
    /\ PartitionFrame

\* both workers are over and one of them has raised: there is no graph
Abandon ==
    /\ pc = "workers"
    /\ \A w \in DOMAIN workers : workers[w].pc \in { "returned", "raised" }
    /\ \E w \in DOMAIN workers : workers[w].pc = "raised"
    /\ pc' = "abandoned"
    /\ UNCHANGED << publications_list, workers, assembled >>
    /\ PartitionFrame

NextPartition == Build \/ Fork \/ Work \/ Assemble \/ Abandon

SpecPartition == InitPartition /\ [][NextPartition]_vars

-----------------------------------------------------------------------------
(* A second call of the builder, on the same arguments or on rearranged ones *)

InitRerun ==
    /\ drugs_list \in SeqsUpTo(DrugPool, MaxDrugs)
    /\ publications_list \in SeqsUpTo(RerunPubPool, MaxPubs)
    /\ pc = "build"
    /\ m_entity = << >>
    /\ m_title = << >>
    /\ Idle
    /\ IdleQuery /\ IdleWorkers /\ IdleDate /\ IdleText
    /\ IdleLoader /\ IdlePipeline

\* the first call is over; the builder is called again with a fresh local graph
Rerun ==
    /\ pc \in { "returned", "raised" }
    /\ run = 1
    /\ run' = 2
    /\ first_drugs' = drugs_list
    /\ first_pubs' = publications_list
    /\ first_graph' = drug_mention_graph
    /\ first_pc' = pc
    /\ drugs_list' \in Permutations_of(drugs_list)
    /\ publications_list' \in Permutations_of(publications_list)
    /\ drug_mention_graph' = << >>
    /\ di' = 1
    /\ pi' = 1
    /\ pc' = "build"
    /\ error' = ""
    /\ UNCHANGED << most_prolific_journal, m_entity, m_title, m_found,
                    queryVars, workerVars, dateVars, textVars, loaderVars, pipelineVars >>

NextRerun == Build \/ FindJournal \/ Rerun

SpecRerun == InitRerun /\ [][NextRerun]_vars

-----------------------------------------------------------------------------
(* The matching rule on its own *)

InitMatch ==
    /\ m_entity \in (SeqsUpTo(Alphabet, MaxEntityLen) \ { << >> })
    /\ m_title \in (SeqsUpTo(Alphabet, MaxTitleLen) \ { << >> })
    /\ drugs_list = << >>
    /\ publications_list = << >>
    /\ pc = "match"
    /\ Idle
    /\ IdleQuery /\ IdleWorkers /\ IdleDate /\ IdleText
    /\ IdleLoader /\ IdlePipeline

\* re.search(drug_pattern, pub_title_normalized) for one name and one title
Search ==
    /\ pc = "match"
    /\ m_found' = re_search(drug_pattern(m_entity), m_title)
    /\ pc' = "matched"
    /\ UNCHANGED << drugs_list, publications_list, drug_mention_graph, di, pi, error,
                    most_prolific_journal, run, first_drugs, first_pubs, first_graph,
                    first_pc, m_entity, m_title,
                    queryVars, workerVars, dateVars, textVars, loaderVars, pipelineVars >>

NextMatch == Search

SpecMatch == InitMatch /\ [][NextMatch]_vars

-----------------------------------------------------------------------------
(* parse_date on its own *)

InitDate ==
    /\ date_str \in DatePool
    /\ parsed_date = << >>
    /\ matched_format = 0
    /\ drugs_list = << >>
    /\ publications_list = << >>
    /\ m_entity = << >>
    /\ m_title = << >>
    /\ pc = "date"
    /\ Idle
    /\ IdleQuery /\ IdleWorkers /\ IdleText
    /\ IdleLoader /\ IdlePipeline

\* a call of parse_date(date_str)
ParseDate ==
    /\ pc = "date"
    /\ \E returned \in { parse_date(date_str) } :
          /\ parsed_date' = returned.result
          /\ matched_format' = returned.format
    /\ pc' = "parsed"
    /\ UNCHANGED << drugs_list, publications_list, drug_mention_graph, di, pi, error,
                    most_prolific_journal, run, first_drugs, first_pubs, first_graph,
                    first_pc, m_entity, m_title, m_found, date_str,
                    queryVars, workerVars, textVars, loaderVars, pipelineVars >>

NextDate == ParseDate

SpecDate == InitDate /\ [][NextDate]_vars

-----------------------------------------------------------------------------
(* normalize_text on its own, and on its own result *)

InitText ==
    /\ text_arg \in TextPool
    /\ normalized = << >>
    /\ renormalized = << >>
    /\ drugs_list = << >>
    /\ publications_list = << >>
    /\ m_entity = << >>
    /\ m_title = << >>
    /\ pc = "text"
    /\ Idle
    /\ IdleQuery /\ IdleWorkers /\ IdleDate
    /\ IdleLoader /\ IdlePipeline

TextFrame ==
    UNCHANGED << drugs_list, publications_list, drug_mention_graph, di, pi, error,
                 most_prolific_journal, run, first_drugs, first_pubs, first_graph,
                 first_pc, m_entity, m_title, m_found, text_arg,
                 queryVars, workerVars, dateVars, loaderVars, pipelineVars >>

\* a call of normalize_text(text)
Normalize ==
    /\ pc = "text"
    /\ normalized' = normalize_text(text_arg)
    /\ pc' = "normalized"
    /\ UNCHANGED renormalized
    /\ TextFrame

\* a call of normalize_text on the result of the first call
NormalizeAgain ==
    /\ pc = "normalized"
    /\ renormalized' = normalize_text(Str(normalized))
    /\ pc' = "renormalized"
    /\ UNCHANGED normalized
    /\ TextFrame

NextText == Normalize \/ NormalizeAgain

SpecText == InitText /\ [][NextText]_vars

-----------------------------------------------------------------------------
(* _create_publication_entry on its own *)

\* the state of the variables that neither the loaders nor the pipeline use
NoBuild ==
    /\ drugs_list = << >>
    /\ publications_list = << >>
    /\ m_entity = << >>
    /\ m_title = << >>
    /\ Idle
    /\ IdleQuery /\ IdleWorkers /\ IdleDate /\ IdleText

InitEntry ==
    /\ entry_args \in EntryArgsPool
    /\ pub_entry = << >>
    /\ call = ""
    /\ files = << >>
    /\ loaded = << >>
    /\ pc = "entry"
    /\ NoBuild
    /\ IdlePipeline

LoaderFrame ==
    UNCHANGED << drugs_list, publications_list, drug_mention_graph, di, pi, error,
                 most_prolific_journal, run, first_drugs, first_pubs, first_graph,
                 first_pc, m_entity, m_title, m_found,
                 queryVars, workerVars, dateVars, textVars, pipelineVars >>

\* a call of _create_publication_entry
CreateEntry ==
    /\ pc = "entry"
    /\ pub_entry' =
          create_publication_entry(entry_args.pub_id, entry_args.title,
                                   entry_args.title, entry_args.journal,
                                   entry_args.date, entry_args.source_type,
                                   entry_args.item_index)
    /\ pc' = "created"
    /\ UNCHANGED << entry_args, call, files, loaded >>
    /\ LoaderFrame

NextEntry == CreateEntry

SpecEntry == InitEntry /\ [][NextEntry]_vars

-----------------------------------------------------------------------------
(* The loading functions, each called once on files of any content *)

InitLoad ==
    /\ \/ /\ call = "DrugsLoader"
          /\ files \in { [NoFiles EXCEPT !.drugs = f] : f \in CsvFilesOf(DrugRowPool) }
       \/ /\ call = "PubMedCSVLoader"
          /\ files \in { [NoFiles EXCEPT !.pubmed_csv = f] :
                            f \in CsvFilesOf(PubmedCsvRowPool) }
       \/ /\ call = "PubMedJSONLoader"
          /\ files \in { [NoFiles EXCEPT !.pubmed_json = f] :
                            f \in JsonFilesOf(PubmedJsonItemPool) }
       \/ /\ call = "ClinicalTrialsCSVLoader"
          /\ files \in { [NoFiles EXCEPT !.clinical_trials = f] :
                            f \in CsvFilesOf(TrialRowPool) }
       \/ /\ call = "load_all_publications_data"
          /\ files \in AllPublicationsFiles
    /\ loaded = << >>
    /\ entry_args = << >>
    /\ pub_entry = << >>
    /\ pc = "load"
    /\ NoBuild
    /\ IdlePipeline

\* DrugsLoader(path).load_data()
LoadDrugs ==
    /\ pc = "load"
    /\ call = "DrugsLoader"
    /\ loaded' \in ListsOf(DrugsLoader_drugs(files.drugs))
    /\ pc' = "loaded"
    /\ UNCHANGED << entry_args, pub_entry, call, files >>
    /\ LoaderFrame

\* PubMedCSVLoader(path).load_data()
LoadPubmedCsv ==
    /\ pc = "load"
    /\ call = "PubMedCSVLoader"
    /\ loaded' = PubMedCSVLoader_load_data(files.pubmed_csv)
    /\ pc' = "loaded"
    /\ UNCHANGED << entry_args, pub_entry, call, files >>
    /\ LoaderFrame

\* PubMedJSONLoader(path).load_data()
LoadPubmedJson ==
    /\ pc = "load"
    /\ call = "PubMedJSONLoader"
    /\ loaded' = PubMedJSONLoader_load_data(files.pubmed_json)
    /\ pc' = "loaded"
    /\ UNCHANGED << entry_args, pub_entry, call, files >>
    /\ LoaderFrame

\* ClinicalTrialsCSVLoader(path).load_data()
LoadClinicalTrials ==
    /\ pc = "load"
    /\ call = "ClinicalTrialsCSVLoader"
    /\ loaded' = ClinicalTrialsCSVLoader_load_data(files.clinical_trials)
    /\ pc' = "loaded"
    /\ UNCHANGED << entry_args, pub_entry, call, files >>
    /\ LoaderFrame

\* load_all_publications_data(pubmed_csv_path, pubmed_json_path, clinical_trials_path)
LoadAllPublications ==
    /\ pc = "load"
    /\ call = "load_all_publications_data"
    /\ loaded' = load_all_publications_data(files.pubmed_csv, files.pubmed_json,
                                            files.clinical_trials)
    /\ pc' = "loaded"
    /\ UNCHANGED << entry_args, pub_entry, call, files >>
    /\ LoaderFrame

NextLoad ==
    LoadDrugs \/ LoadPubmedCsv \/ LoadPubmedJson \/ LoadClinicalTrials
       \/ LoadAllPublications

SpecLoad == InitLoad /\ [][NextLoad]_vars

-----------------------------------------------------------------------------
(* main.py: run_pipeline, one run from its first line to its return *)

InitPipeline ==
    /\ step = "start"
    /\ trace = << >>
    /\ output_dir \in { "absent", "present" }
    /\ output_file \in { "absent", "old" }
    /\ (output_dir = "absent") => (output_file = "absent")
    /\ save_error = ""
    /\ files \in PipelineFiles
    /\ entry_args = << >>
    /\ pub_entry = << >>
    /\ call = ""
    /\ loaded = << >>
    /\ pc = "pipeline"
    /\ NoBuild

PipelineFrame ==
    UNCHANGED << drug_mention_graph, di, pi, error, run,
                 first_drugs, first_pubs, first_graph, first_pc,
                 m_entity, m_title, m_found,
                 workerVars, dateVars, textVars, loaderVars >>

\* if not os.path.exists(OUTPUT_DIR): try: os.makedirs(OUTPUT_DIR)
\* except OSError: return
EnsureOutputDir ==
    /\ step = "start"
    /\ trace' = Append(trace, "ensure_output_dir")
    /\ IF output_dir = "present"
       THEN step' = "load_drugs" /\ UNCHANGED output_dir
       ELSE \E created \in BOOLEAN :
               IF created
               THEN step' = "load_drugs" /\ output_dir' = "present"
               ELSE step' = "ended" /\ UNCHANGED output_dir
    /\ UNCHANGED << drugs_list, publications_list, pc, most_prolific_journal,
                    queryVars, output_file, save_error >>
    /\ PipelineFrame

\* the mistaken test after loading the vocabulary that goes on without names
after_loading_whatever(drugs) == "load_publications"

\* if not drugs: return
after_loading(drugs) == IF drugs = << >> THEN "ended" ELSE "load_publications"

\* drugs = DrugsLoader(config.DRUGS_FILE).load_data()
LoadDrugsStep ==
    /\ step = "load_drugs"
    /\ trace' = Append(trace, "load_drugs")
    /\ drugs_list' \in ListsOf(DrugsLoader_drugs(files.drugs))
    /\ step' = after_loading(drugs_list')
    /\ UNCHANGED << publications_list, pc, most_prolific_journal,
                    queryVars, output_dir, output_file, save_error >>
    /\ PipelineFrame

\* all_publications = load_all_publications_data(...)
LoadPublicationsStep ==
    /\ step = "load_publications"
    /\ trace' = Append(trace, "load_publications")
    /\ \E all_publications \in
             { load_all_publications_data(files.pubmed_csv, files.pubmed_json,
                                          files.clinical_trials) } :
          publications_list' =
             [n \in 1..Len(all_publications) |-> record_of(all_publications[n])]
    /\ step' = "build_graph"
    /\ UNCHANGED << drugs_list, pc, most_prolific_journal,
                    queryVars, output_dir, output_file, save_error >>
    /\ PipelineFrame

\* graph = build_drug_mention_graph(drugs, all_publications): the call
CallBuilder ==
    /\ step = "build_graph"
    /\ trace' = Append(trace, "build_graph")
    /\ pc' = "build"
    /\ step' = "building"
    /\ UNCHANGED << drugs_list, publications_list, most_prolific_journal,
                    queryVars, output_dir, output_file, save_error >>
    /\ PipelineFrame

\* try: with open(OUTPUT_JSON_FILE, 'w') as f: json.dump(graph, f, ...)
\* except IOError / except Exception: the error is logged.  A failure of open
\* leaves the file as it was, a failure of the dump leaves it cut short.
SaveOutput ==
    /\ step = "building"
    /\ pc = "returned"
    /\ trace' = Append(trace, "save")
    /\ \E caught \in { "", "IOError", "Exception" }, opened \in BOOLEAN :
          /\ (caught = "") => opened
          /\ (caught = "Exception") => opened
          /\ save_error' = caught
          /\ output_file' =
                IF caught = "" THEN "written"
                ELSE IF opened THEN "cut short" ELSE output_file
    /\ step' = "saved"
    /\ UNCHANGED << drugs_list, publications_list, pc, most_prolific_journal,
                    queryVars, output_dir >>
    /\ PipelineFrame

\* if graph: find_journal_with_most_unique_drugs(graph);
\* find_related_drugs_by_pubmed_journals(graph, "atropine")
AdhocQueries ==
    /\ step = "saved"
    /\ drug_mention_graph # << >>
    /\ trace' = Append(trace, "adhoc_queries")
    /\ most_prolific_journal' = find_journal_with_most_unique_drugs(drug_mention_graph)
    /\ target_drug_name' = target_drug_for_adhoc
    /\ related_drugs' =
          find_related_drugs_by_pubmed_journals(drug_mention_graph,
                                                target_drug_for_adhoc)
    /\ step' = "ended"
    /\ UNCHANGED << drugs_list, publications_list, pc,
                    output_dir, output_file, save_error >>
    /\ PipelineFrame

\* else: "Adhoc queries skipped"
SkipAdhocQueries ==
    /\ step = "saved"
    /\ drug_mention_graph = << >>
    /\ step' = "ended"
    /\ UNCHANGED << drugs_list, publications_list, pc, most_prolific_journal,
                    queryVars, trace, output_dir, output_file, save_error >>
    /\ PipelineFrame

\* the steps of the builder on a vocabulary and records made by the loaders
NextPipeline ==
    \/ EnsureOutputDir
    \/ LoadDrugsStep
    \/ LoadPublicationsStep
    \/ CallBuilder
    \/ NoMatch
    \/ ReadFields
    \/ MakeEntityKey
    \/ MakeJournalKey
    \/ AddMention
    \/ DuplicateMention
    \/ NextDrug
    \/ Return
    \/ SaveOutput
    \/ AdhocQueries
    \/ SkipAdhocQueries

\* the run is one thread of control: a step that can be made is made
SpecPipeline == InitPipeline /\ [][NextPipeline]_vars /\ WF_vars(NextPipeline)

-----------------------------------------------------------------------------
(* Properties of the matching rule *)

\* name occurs in text as a contiguous run of characters with no word character
\* immediately before it and none immediately after it
WholeWordOccurrence(name, text) ==
    \E i \in 1..(Len(text) - Len(name) + 1) :
        /\ SubSeq(text, i, i + Len(name) - 1) = name
        /\ i = 1 \/ ~IsWordChar(text[i - 1])
        /\ i + Len(name) > Len(text) \/ ~IsWordChar(text[i + Len(name)])

\* C1: for every non-empty entity name and every non-empty title, the builder's
\* search succeeds if and only if the name occurs literally in the title with a
\* non-word character or a string boundary immediately before and after it.
C1_MatchIffWholeWordOccurrence ==
    pc = "matched" => (m_found <=> WholeWordOccurrence(m_entity, m_title))

-----------------------------------------------------------------------------
(* Properties of the builder *)

Returned == pc \in { "returned", "queried" }

\* the (entity position, record position) pairs the loops have gone through
Processed(d, p) == d < di \/ (d = di /\ p < pi)

\* entity drugs_list[d] is not empty and the title of record p mentions it
PairMatches(d, p) ==
    /\ drugs_list[d] # << >>
    /\ Mentions(drugs_list[d], publications_list[p])

DrugPositions == 1..Len(drugs_list)
PubPositions == 1..Len(publications_list)

\* the occurrence record of a publication record, field by field
OccurrenceOf(pub) ==
    [date |-> pub.date, publication_title |-> pub.original_title,
     source_type |-> pub.source_type, source_id |-> pub.id]

\* every (entity, journal, occurrence) the graph holds
Members(g) ==
    UNION { UNION { { << g[i].drug, g[i].journals[k].journal, occ >> :
                        occ \in Range(g[i].journals[k].mentions) } :
                    k \in 1..Len(g[i].journals) } :
            i \in 1..Len(g) }

\* C2: in the returned graph every matching (entity, record) pair has, in
\* graph[entity][record.journal], an occurrence with date = record.date,
\* publication_title = record.original_title, source_type = record.source_type and
\* source_id = record.id, and every occurrence of the graph comes from such a pair.
C2_OccurrencesAreTheMatchingPairs ==
    Returned =>
        /\ \A d \in DrugPositions, p \in PubPositions :
              PairMatches(d, p) =>
                 LET e == drugs_list[d]
                     pub == publications_list[p]
                 IN /\ HasEntity(drug_mention_graph, e)
                    /\ HasJournal(JournalsOf(drug_mention_graph, e), pub.journal)
                    /\ OccurrenceOf(pub) \in
                          Range(Bucket(drug_mention_graph, e, pub.journal))
        /\ \A i \in 1..Len(drug_mention_graph) :
              \A k \in 1..Len(drug_mention_graph[i].journals) :
                 \A occ \in Range(drug_mention_graph[i].journals[k].mentions) :
                    \E d \in DrugPositions, p \in PubPositions :
                       /\ PairMatches(d, p)
                       /\ drugs_list[d] = drug_mention_graph[i].drug
                       /\ publications_list[p].journal =
                             drug_mention_graph[i].journals[k].journal
                       /\ OccurrenceOf(publications_list[p]) = occ

\* two entities matched, the first in two journals
C2_Witness ==
    /\ pc = "returned"
    /\ Len(drug_mention_graph) = 2
    /\ Len(drug_mention_graph[1].journals) = 2

\* the pairs whose title matched so far: those the loops have gone through and the
\* one whose occurrence is being inserted
Seen(d, p) == Processed(d, p) \/ (Inserting /\ d = di /\ p = pi)

\* the entities of the pairs seen or processed (Through) that matched
MatchedEntities(Through(_, _)) ==
    { drugs_list[d] : d \in { x \in DrugPositions :
          \E p \in PubPositions : Through(x, p) /\ PairMatches(x, p) } }

\* the journals of the pairs seen or processed (Through) that matched for entity e
MatchedJournals(Through(_, _), e) ==
    { publications_list[q[2]].journal :
        q \in { x \in DrugPositions \X PubPositions :
                  /\ Through(x[1], x[2])
                  /\ PairMatches(x[1], x[2])
                  /\ drugs_list[x[1]] = e } }

\* C3 as stated: at every point of the build and in the returned graph, an entity
\* key exists iff a record title matched that entity, a journal key exists under
\* an entity iff a matching record of that entity has that journal, no journal map
\* and no bucket is empty, and an empty entity list or record list gives the
\* empty graph.
C3_KeysExistIffMatched ==
    /\ Range(EntityKeys(drug_mention_graph)) = MatchedEntities(Seen)
    /\ \A i \in 1..Len(drug_mention_graph) :
          /\ drug_mention_graph[i].journals # << >>
          /\ Range(JournalKeys(drug_mention_graph[i].journals)) =
                MatchedJournals(Seen, drug_mention_graph[i].drug)
          /\ \A k \in 1..Len(drug_mention_graph[i].journals) :
                drug_mention_graph[i].journals[k].mentions # << >>
    /\ (drugs_list = << >> \/ publications_list = << >>) =>
          drug_mention_graph = << >>

\* line 74 has been run for the pair (di, pi): the entity has its key
EntityKeyMade ==
    \/ pc \in { "journal_key", "append" }
    \/ pc = "raised" /\ error = "TypeError"

\* line 77 has been run for the pair (di, pi): the journal has its key
JournalKeyMade == pc = "append"

\* C3: between two (entity, record) pairs and in the returned graph, an entity key
\* exists iff a record title matched that entity, a journal key exists under an
\* entity iff a matching record of that entity has that journal, and no journal
\* map and no bucket is empty.  While the occurrence of a matching pair is being
\* inserted, the keys are those of the pairs before it, then also the entity of
\* the pair from line 74 on, then also its journal from line 77 on; only the
\* journal map of that entity can be empty, from line 74 to line 77, and only the
\* bucket of that journal, from line 77 to line 82.  When an exception leaves the
\* builder, the graph it abandons is as the failing line found it: after a
\* TypeError at line 76 the entity of the pair has its key, with an empty journal
\* map if it was new.  An empty entity list or record list gives the empty graph.
C3_KeysFollowTheInsertion ==
    /\ Range(EntityKeys(drug_mention_graph)) =
          MatchedEntities(Processed)
             \cup (IF EntityKeyMade THEN { drugs_list[di] } ELSE { })
    /\ \A i \in 1..Len(drug_mention_graph) :
          LET e == drug_mention_graph[i].drug
              current == e = drugs_list[di]
          IN /\ Range(JournalKeys(drug_mention_graph[i].journals)) =
                   MatchedJournals(Processed, e)
                      \cup (IF JournalKeyMade /\ current
                            THEN { publications_list[pi].journal } ELSE { })
             /\ drug_mention_graph[i].journals = << >> =>
                   EntityKeyMade /\ ~JournalKeyMade /\ current
             /\ \A k \in 1..Len(drug_mention_graph[i].journals) :
                   drug_mention_graph[i].journals[k].mentions = << >> =>
                      /\ JournalKeyMade /\ current
                      /\ drug_mention_graph[i].journals[k].journal =
                            publications_list[pi].journal
    /\ (drugs_list = << >> \/ publications_list = << >>) =>
          drug_mention_graph = << >>

\* the first entity has its occurrence, and the second one has its key and the key
\* of its journal, with a bucket that is still empty
C3_Witness ==
    /\ pc = "append"
    /\ di = 2
    /\ Len(drug_mention_graph) = 2
    /\ drug_mention_graph[1].journals[1].mentions # << >>
    /\ drug_mention_graph[2].drug = drugs_list[2]
    /\ Len(drug_mention_graph[2].journals) = 1
    /\ drug_mention_graph[2].journals[1].mentions = << >>

\* no bucket holds two equal occurrence records
NoDuplicates ==
    \A i \in 1..Len(drug_mention_graph) :
        \A k \in 1..Len(drug_mention_graph[i].journals) :
            LET mentions == drug_mention_graph[i].journals[k].mentions
            IN \A m, n \in 1..Len(mentions) : mentions[m] = mentions[n] => m = n

\* the builder is about to insert an occurrence that its bucket already holds
Reinserting ==
    /\ InInnerLoop \/ Inserting
    /\ PairMatches(di, pi)
    /\ ErrorOf(publications_list[pi]) = ""
    /\ AlreadyPresent(drug_mention_graph, drugs_list[di], publications_list[pi].journal,
                      OccurrenceOf(publications_list[pi]))

\* C4: no (entity, journal) bucket ever contains two occurrence records equal on
\* all four fields, whatever the inputs repeat, and inserting an occurrence equal
\* to one already in the bucket leaves the bucket (and the graph) unchanged.
C4_NoDuplicateOccurrences ==
    /\ []NoDuplicates
    /\ [][Reinserting => drug_mention_graph' = drug_mention_graph]_vars

\* the same record twice in the list, matched by the first entity, and one occurrence kept
C4_Witness ==
    /\ pc = "returned"
    /\ Len(publications_list) = 2
    /\ publications_list[1] = publications_list[2]
    /\ Len(drugs_list) = 2
    /\ drugs_list[1] = drugs_list[2]
    /\ Len(drug_mention_graph) = 1
    /\ Len(drug_mention_graph[1].journals[1].mentions) = 1

\* C5: the builder never fails: a malformed record or an empty entity name is
\* skipped and no exception leaves the function.
C5_BuilderNeverFails == pc # "raised"

-----------------------------------------------------------------------------
(* Properties of two calls of the builder *)

SecondCallOver == run = 2 /\ pc \in { "returned", "raised", "queried" }

\* C6: a second call of the builder on the same entity list and the same record
\* list ends as the first did and gives a graph with the same entity keys, journal
\* keys and buckets in the same order; the first call leaves nothing behind.
C6_SecondRunGivesSameGraph ==
    (SecondCallOver /\ drugs_list = first_drugs /\ publications_list = first_pubs) =>
        /\ (pc = "raised") <=> (first_pc = "raised")
        /\ drug_mention_graph = first_graph

\* both calls returned a graph of two entities from the same arguments
C6_Witness ==
    /\ SecondCallOver
    /\ pc = "returned"
    /\ drugs_list = first_drugs
    /\ publications_list = first_pubs
    /\ Len(drug_mention_graph) = 2

\* the journal keys under entity e, none if e is no key
JournalSet(g, e) ==
    IF HasEntity(g, e) THEN Range(JournalKeys(JournalsOf(g, e))) ELSE {}

\* C7: for any rearrangement of the entity list and of the record list the builder
\* returns a graph with the same set of entity keys, the same set of journal keys
\* under each entity and the same set of occurrences in each bucket.
C7_MembershipIgnoresInputOrder ==
    SecondCallOver =>
        /\ (pc = "raised") <=> (first_pc = "raised")
        /\ pc # "raised" =>
              /\ Range(EntityKeys(drug_mention_graph)) = Range(EntityKeys(first_graph))
              /\ \A e \in Range(EntityKeys(first_graph)) :
                    JournalSet(drug_mention_graph, e) = JournalSet(first_graph, e)
              /\ Members(drug_mention_graph) = Members(first_graph)

\* both lists were rearranged and the second graph is ordered differently
C7_Witness ==
    /\ SecondCallOver
    /\ pc = "returned"
    /\ drugs_list # first_drugs
    /\ publications_list # first_pubs
    /\ drug_mention_graph # first_graph

-----------------------------------------------------------------------------
(* Order in the returned graph *)

\* the entities of the list that match some record, each at its first position
ExpectedEntities ==
    LET Matched(e) == e # << >> /\ \E p \in PubPositions : Mentions(e, publications_list[p])
    IN FirstSeen(SelectSeq(drugs_list, Matched))

\* the journals of the records that match e, each at its first position
ExpectedJournals(e) ==
    LET Hit(pub) == Mentions(e, pub)
        hits == SelectSeq(publications_list, Hit)
    IN FirstSeen([n \in 1..Len(hits) |-> hits[n].journal])

\* the occurrences of the records of journal j that match e, each at its first position
ExpectedBucket(e, j) ==
    LET Hit(pub) == Mentions(e, pub) /\ pub.journal = j
        hits == SelectSeq(publications_list, Hit)
    IN FirstSeen([n \in 1..Len(hits) |-> OccurrenceOf(hits[n])])

\* C8: in the returned graph the entity keys are in the order of the entity list,
\* the journal keys of an entity in the order of the first matching record of each
\* journal, and the occurrences of a bucket in the order of their records, the
\* first of several equal occurrences fixing the position.
C8_FirstSeenOrder ==
    Returned =>
        /\ EntityKeys(drug_mention_graph) = ExpectedEntities
        /\ \A i \in 1..Len(drug_mention_graph) :
              LET e == drug_mention_graph[i].drug
                  js == drug_mention_graph[i].journals
              IN /\ JournalKeys(js) = ExpectedJournals(e)
                 /\ \A k \in 1..Len(js) :
                       js[k].mentions = ExpectedBucket(e, js[k].journal)

\* two entities, the first with two journals of which "journal b" came first
C8_Witness ==
    /\ pc = "returned"
    /\ Len(drug_mention_graph) = 2
    /\ drug_mention_graph[1].drug = chars(<< "b" >>)
    /\ Len(drug_mention_graph[1].journals) = 2
    /\ drug_mention_graph[1].journals[1].journal = "journal b"

-----------------------------------------------------------------------------
(* Properties of find_journal_with_most_unique_drugs *)

AllJournals(g) == UNION { Range(JournalKeys(g[i].journals)) : i \in 1..Len(g) }

\* the number of entities with at least one occurrence in journal j
DistinctEntities(g, j) ==
    Cardinality({ i \in 1..Len(g) :
        \E k \in 1..Len(g[i].journals) :
            g[i].journals[k].journal = j /\ g[i].journals[k].mentions # << >> })

\* the journals in the order the graph stores them: entity by entity, and within
\* an entity journal by journal
RECURSIVE EncounterOrder(_)
EncounterOrder(g) ==
    IF g = << >> THEN << >>
    ELSE EncounterOrder(SubSeq(g, 1, Len(g) - 1)) \o JournalKeys(g[Len(g)].journals)

\* C9: the query returns a journal whose number of distinct entities with an
\* occurrence in it is maximal over all journals, and none on the empty graph.
C9_MostDistinctEntities ==
    pc = "queried" =>
        IF drug_mention_graph = << >>
        THEN most_prolific_journal = NONE
        ELSE /\ most_prolific_journal \in AllJournals(drug_mention_graph)
             /\ \A j \in AllJournals(drug_mention_graph) :
                   DistinctEntities(drug_mention_graph, most_prolific_journal) >=
                      DistinctEntities(drug_mention_graph, j)

\* the journal met first has fewer entities than the journal returned
C9_Witness ==
    /\ pc = "queried"
    /\ drug_mention_graph # << >>
    /\ EncounterOrder(drug_mention_graph)[1] # most_prolific_journal
    /\ DistinctEntities(drug_mention_graph, EncounterOrder(drug_mention_graph)[1]) <
          DistinctEntities(drug_mention_graph, most_prolific_journal)

\* C10: among the journals that tie for the maximal count the query returns the
\* one met first when going through the entities in stored order and, within an
\* entity, its journals in stored order.
C10_TieGoesToFirstEncountered ==
    (pc = "queried" /\ drug_mention_graph # << >>) =>
        LET order == EncounterOrder(drug_mention_graph)
            IsMax(n) == \A m \in 1..Len(order) :
                           DistinctEntities(drug_mention_graph, order[n]) >=
                              DistinctEntities(drug_mention_graph, order[m])
        IN \E n \in 1..Len(order) :
              /\ IsMax(n)
              /\ \A m \in 1..(n - 1) : ~IsMax(m)
              /\ most_prolific_journal = order[n]

\* two journals tie and the one returned is not the first in alphabetical order
C10_Witness ==
    /\ pc = "queried"
    /\ AllJournals(drug_mention_graph) = { "journal a", "journal b" }
    /\ DistinctEntities(drug_mention_graph, "journal a") =
          DistinctEntities(drug_mention_graph, "journal b")
    /\ most_prolific_journal = "journal b"

-----------------------------------------------------------------------------
(* Properties of the query on related entities *)

\* a call of find_related_drugs_by_pubmed_journals has returned
RelatedQueried == Returned /\ target_drug_name # << >>

\* what the character c may be in lowercase: a capital sigma is one of the two
\* small ones, the capital I with a dot is two characters
LowercaseForms(c) ==
    IF c = CapitalSigma THEN { << SmallSigma >>, << FinalSigma >> }
    ELSE IF c = CapitalIWithDot THEN { SmallIThenDot }
    ELSE IF c \in UppercaseChars THEN { << LowerOf[c] >> }
    ELSE { << c >> }

\* n is s in lowercase, character by character
RECURSIVE IsLowercased(_, _)
IsLowercased(n, s) ==
    IF s = << >> THEN n = << >>
    ELSE \E form \in LowercaseForms(s[1]) :
            /\ Len(n) >= Len(form)
            /\ SubSeq(n, 1, Len(form)) = form
            /\ IsLowercased(SubSeq(n, Len(form) + 1, Len(n)), Tail(s))

\* the characters of s, each also as str.lower() would leave it
LowercasedCharsOf(s) ==
    UNION { Range(form) : form \in UNION { LowercaseForms(s[i]) : i \in 1..Len(s) } }

\* the texts no longer than s in lowercase can be
LowercasedTextsOf(s) ==
    SeqsUpTo(LowercasedCharsOf(s),
             Len(s) + Cardinality({ i \in 1..Len(s) : s[i] = CapitalIWithDot }))

\* no character of n is one that str.lower() changes
IsLowercase(n) ==
    \A i \in 1..Len(n) : n[i] \notin UppercaseChars \cup { CapitalIWithDot }

\* n is s in lowercase without its leading and trailing whitespace
IsLowercasedAndTrimmed(n, s) ==
    \E lead, trail \in 0..Len(s) :
        /\ lead + trail <= Len(s)
        /\ \A i \in 1..lead : s[i] \in Whitespace
        /\ \A i \in (Len(s) - trail + 1)..Len(s) : s[i] \in Whitespace
        /\ IsLowercased(n, SubSeq(s, lead + 1, Len(s) - trail))
        /\ IsLowercase(n)
        /\ n # << >> => (n[1] \notin Whitespace /\ n[Len(n)] \notin Whitespace)

\* the source types that start with "pubmed"
PubmedSourceTypes == { "pubmed_csv", "pubmed_json" }

\* entity e has an occurrence from a PubMed source in journal j
PubmedIn(g, e, j) ==
    \E m \in Members(g) : m[1] = e /\ m[2] = j /\ m[3].source_type \in PubmedSourceTypes

\* C11: the related-entities query lowercases and trims its target and returns
\* exactly the other entities x for which some journal holds an occurrence from a
\* PubMed source under the target and one under x; the result is empty when the
\* normalized target is not an entity of the graph or has no such journal.
C11_RelatedAreTheCoPublishedInPubmed ==
    RelatedQueried =>
        \E n \in LowercasedTextsOf(target_drug_name) :
            /\ IsLowercasedAndTrimmed(n, target_drug_name)
            /\ related_drugs =
                  { x \in Range(EntityKeys(drug_mention_graph)) \ { n } :
                       \E j \in AllJournals(drug_mention_graph) :
                          /\ PubmedIn(drug_mention_graph, n, j)
                          /\ PubmedIn(drug_mention_graph, x, j) }
            /\ ~HasEntity(drug_mention_graph, n) => related_drugs = { }
            /\ (\A j \in AllJournals(drug_mention_graph) :
                   ~PubmedIn(drug_mention_graph, n, j)) => related_drugs = { }

\* the target " A" is found as "a", whose bucket in the shared journal starts with
\* an occurrence from the trial source, and "b" is related through the JSON source
C11_Witness ==
    /\ RelatedQueried
    /\ target_drug_name = chars(<< " ", "A" >>)
    /\ related_drugs = { chars(<< "b" >>) }
    /\ HasEntity(drug_mention_graph, chars(<< "a" >>))
    /\ HasJournal(JournalsOf(drug_mention_graph, chars(<< "a" >>)), "journal a")
    /\ Bucket(drug_mention_graph, chars(<< "a" >>), "journal a")[1].source_type =
          "clinical_trials_csv"
    /\ \E m \in Members(drug_mention_graph) :
          m[1] = chars(<< "b" >>) /\ m[3].source_type = "pubmed_json"

\* C12: neither query changes the graph it is given: from the moment the builder
\* has returned, every step, whichever query is called with whichever target and
\* however often, leaves the graph as it was.
C12_QueriesLeaveTheGraphUnchanged ==
    [][Returned => drug_mention_graph' = drug_mention_graph]_vars

\* both queries have been called on a graph with two entities, the second one
\* with a target that the graph does not hold
C12_Witness ==
    /\ RelatedQueried
    /\ most_prolific_journal \in { "journal a", "journal b" }
    /\ target_drug_name = chars(<< "c" >>)
    /\ Len(drug_mention_graph) = 2

\* C25: the query is symmetric and irreflexive: after a call with any target, the
\* normalized target is not in the result, and every other entity key b of the
\* graph is in the result exactly if the query for b on the same graph returns the
\* normalized target.
C25_RelatedIsSymmetricAndIrreflexive ==
    RelatedQueried =>
        LET a == str_strip(str_lower(target_drug_name))
        IN /\ a \notin related_drugs
           /\ \A b \in Range(EntityKeys(drug_mention_graph)) \ { a } :
                 b \in related_drugs <=>
                    a \in find_related_drugs_by_pubmed_journals(drug_mention_graph, b)

\* "B " was asked about on a graph where "a" and "b" share a journal through
\* PubMed sources and where one of them also has a bucket filled by the trial
\* source only: each is the other's related entity
C25_Witness ==
    /\ RelatedQueried
    /\ target_drug_name = chars(<< "B", "\r" >>)
    /\ related_drugs = { chars(<< "a" >>) }
    /\ find_related_drugs_by_pubmed_journals(drug_mention_graph, chars(<< "a" >>)) =
          { chars(<< "b" >>) }
    /\ \E m \in Members(drug_mention_graph) :
          m[3].source_type = "clinical_trials_csv"

-----------------------------------------------------------------------------
(* Properties of the build partitioned by entity *)

\* the journals of entity e in graph g, with their buckets, << >> if e is no key
EntryOf(g, e) == IF HasEntity(g, e) THEN JournalsOf(g, e) ELSE << >>

\* C13: in a build partitioned by entity, with the workers' steps interleaved in
\* any way, the workers' shares of the entity names are disjoint, every key of a
\* worker's graph is one of its own entities, and the graph put together from the
\* workers' graphs has the entity keys of the sequential build and under each of
\* them the same journal keys and the same buckets; the workers fail exactly when
\* the sequential build fails.
C13_PartitionedBuildEqualsSequential ==
    /\ pc \in { "workers", "assembled", "abandoned" } =>
          /\ workers[1].own \cap workers[2].own = { }
          /\ \A w \in DOMAIN workers :
                Range(EntityKeys(workers[w].graph)) \subseteq workers[w].own
    /\ pc = "assembled" =>
          /\ error = ""
          /\ Range(EntityKeys(assembled)) = Range(EntityKeys(drug_mention_graph))
          /\ Len(assembled) = Len(drug_mention_graph)
          /\ \A e \in Range(EntityKeys(drug_mention_graph)) :
                EntryOf(assembled, e) = EntryOf(drug_mention_graph, e)
    /\ pc = "abandoned" => error # ""

\* both workers have written: each has an entity of its own in its graph, and the
\* record that names both entities has gone into both graphs
C13_Witness ==
    /\ pc = "assembled"
    /\ workers[1].graph # << >>
    /\ workers[2].graph # << >>
    /\ \E m1 \in Members(workers[1].graph), m2 \in Members(workers[2].graph) :
          m1[3] = m2[3]

-----------------------------------------------------------------------------
(* Properties of parse_date *)

\* parse_date has returned, and its argument was a str
ParsedStr == pc = "parsed" /\ date_str.type = "str"

\* the argument without its commas, from its first to its last character that is
\* not whitespace
CleanedDate ==
    LET NoComma(c) == c # ord(",")
        bare == SelectSeq(date_str.v, NoComma)
        inside == { k \in 1..Len(bare) : bare[k] \notin Whitespace }
    IN IF inside = { } THEN << >>
       ELSE SubSeq(bare, CHOOSE k \in inside : \A n \in inside : k <= n,
                         CHOOSE k \in inside : \A n \in inside : k >= n)

\* the numbers and years that the fields of the model's dates spell
FieldNumbers == { 1, 2, 3, 4, 7, 13, 15, 25, 29, 31, 32 }
FieldYears == { 2020, 2021, 2022 }

\* n as a date field: with or without a leading zero
Spellings(n) ==
    IF n < 10 THEN { << AsciiDigits[n + 1] >>, << ord("0"), AsciiDigits[n + 1] >> }
    ELSE { << AsciiDigits[(n \div 10) + 1], AsciiDigits[(n % 10) + 1] >> }

\* a year of four digits
YearSpelling(y) ==
    << AsciiDigits[(y \div 1000) + 1], AsciiDigits[((y \div 100) % 10) + 1],
       AsciiDigits[((y \div 10) % 10) + 1], AsciiDigits[(y % 10) + 1] >>

\* YYYY-MM-DD
Iso(y, m, d) ==
    YearSpelling(y) \o chars(<< "-" >>)
       \o << AsciiDigits[(m \div 10) + 1], AsciiDigits[(m % 10) + 1] >> \o chars(<< "-" >>)
       \o << AsciiDigits[(d \div 10) + 1], AsciiDigits[(d % 10) + 1] >>

\* day d of month m of year y is a day of the calendar (years 1901 to 2099)
RealDate(y, m, d) ==
    /\ m \in 1..12
    /\ d >= 1
    /\ d <= (IF m = 2 THEN (IF y % 4 = 0 THEN 29 ELSE 28)
             ELSE IF m \in { 4, 6, 9, 11 } THEN 30 ELSE 31)

\* the three fields of t when t holds the separator exactly twice, << >> otherwise
FieldsOf(t, sep) ==
    LET at == { k \in 1..Len(t) : t[k] = sep }
    IN IF Cardinality(at) # 2 THEN << >>
       ELSE LET i == CHOOSE k \in at : \A n \in at : k <= n
                j == CHOOSE k \in at : \A n \in at : k >= n
            IN << SubSeq(t, 1, i - 1), SubSeq(t, i + 1, j - 1), SubSeq(t, j + 1, Len(t)) >>

\* C14: parse_date tries its patterns in their fixed order on the argument without
\* commas and surrounding whitespace and returns the first parse as YYYY-MM-DD: a
\* slash date a/b/y that is a date read day/month/year is returned with a as day
\* and b as month, by the first pattern, whether or not it is also a date read
\* month/day/year ("01/02/2020" gives "2020-02-01"); a slash date that is a date
\* only when read month/day/year is returned that way, by the second pattern
\* ("03/15/2021" gives "2021-03-15").
C14_FirstPatternThatParsesWins ==
    ParsedStr =>
        LET fs == FieldsOf(CleanedDate, ord("/"))
        IN fs # << >> =>
           \A a \in FieldNumbers : fs[1] \in Spellings(a) =>
              \A b \in FieldNumbers : fs[2] \in Spellings(b) =>
                 \A y \in FieldYears : fs[3] = YearSpelling(y) =>
                    /\ RealDate(y, b, a) =>
                          (parsed_date = Iso(y, b, a) /\ matched_format = 1)
                    /\ (RealDate(y, a, b) /\ ~RealDate(y, b, a)) =>
                          (parsed_date = Iso(y, a, b) /\ matched_format = 2)

\* "01/02/2020" with a comma in it and blanks around it has come back as 1 February
C14_Witness ==
    /\ ParsedStr
    /\ CleanedDate = chars(<< "0", "1", "/", "0", "2", "/", "2", "0", "2", "0" >>)
    /\ Len(date_str.v) > Len(CleanedDate) + 2
    /\ ord(",") \in Range(date_str.v)
    /\ parsed_date = chars(<< "2", "0", "2", "0", "-", "0", "2", "-", "0", "1" >>)

\* the place of a pattern in formats_to_try
PositionOf(format) == CHOOSE k \in 1..Len(formats_to_try) : formats_to_try[k] = format

SlashDayFirst == << "%d", "/", "%m", "/", "%Y" >>
SlashMonthFirst == << "%m", "/", "%d", "/", "%Y" >>
DashDayFirst == << "%Y", "-", "%d", "-", "%m" >>
DashMonthFirst == << "%Y", "-", "%m", "-", "%d" >>
NameDayFirst(name) == << "%d", " ", name, " ", "%Y" >>
NameMonthFirst(name) == << name, " ", "%d", " ", "%Y" >>

\* a numeric pattern has no month name in it
IsNumericPattern(format) == "%B" \notin Range(format) /\ "%b" \notin Range(format)

\* C15 as stated: an input that is a date under both readings of its family comes
\* back in the day-before-month reading, for slash dates a/b/y and for dash dates
\* y-a-b alike: a is the day and b the month.
C15_DayBeforeMonthInEveryFamily ==
    ParsedStr =>
        LET slash == FieldsOf(CleanedDate, ord("/"))
            dash == FieldsOf(CleanedDate, ord("-"))
        IN /\ slash # << >> =>
              \A a \in FieldNumbers : slash[1] \in Spellings(a) =>
                 \A b \in FieldNumbers : slash[2] \in Spellings(b) =>
                    \A y \in FieldYears : 
                       (slash[3] = YearSpelling(y) /\ RealDate(y, b, a) /\ RealDate(y, a, b))
                          => parsed_date = Iso(y, b, a)
           /\ dash # << >> =>
              \A a \in FieldNumbers : dash[2] \in Spellings(a) =>
                 \A b \in FieldNumbers : dash[3] \in Spellings(b) =>
                    \A y \in FieldYears : 
                       (dash[1] = YearSpelling(y) /\ RealDate(y, b, a) /\ RealDate(y, a, b))
                          => parsed_date = Iso(y, b, a)

\* C15: in the pattern order the day-before-month pattern comes before its
\* month-before-day counterpart in the slash family and in both month-name
\* families, year-month-day comes before year-day-month in the dash family, and
\* every numeric pattern comes before every month-name pattern; so a slash date
\* a/b/y that is a date under both readings comes back with a as day and b as
\* month, and a dash date y-a-b that is a date under both readings comes back with
\* a as month and b as day.
C15_DayFirstForSlashMonthFirstForDash ==
    /\ PositionOf(SlashDayFirst) < PositionOf(SlashMonthFirst)
    /\ PositionOf(DashMonthFirst) < PositionOf(DashDayFirst)
    /\ \A name \in { "%B", "%b" } :
          PositionOf(NameDayFirst(name)) < PositionOf(NameMonthFirst(name))
    /\ \A k, n \in 1..Len(formats_to_try) :
          (IsNumericPattern(formats_to_try[k]) /\ ~IsNumericPattern(formats_to_try[n]))
             => k < n
    /\ ParsedStr =>
        LET slash == FieldsOf(CleanedDate, ord("/"))
            dash == FieldsOf(CleanedDate, ord("-"))
        IN /\ slash # << >> =>
              \A a \in FieldNumbers : slash[1] \in Spellings(a) =>
                 \A b \in FieldNumbers : slash[2] \in Spellings(b) =>
                    \A y \in FieldYears : 
                       (slash[3] = YearSpelling(y) /\ RealDate(y, b, a) /\ RealDate(y, a, b))
                          => /\ parsed_date = Iso(y, b, a)
                             /\ formats_to_try[matched_format] = SlashDayFirst
           /\ dash # << >> =>
              \A a \in FieldNumbers : dash[2] \in Spellings(a) =>
                 \A b \in FieldNumbers : dash[3] \in Spellings(b) =>
                    \A y \in FieldYears : 
                       (dash[1] = YearSpelling(y) /\ RealDate(y, b, a) /\ RealDate(y, a, b))
                          => /\ parsed_date = Iso(y, a, b)
                             /\ formats_to_try[matched_format] = DashMonthFirst

\* "2020-01-02" has come back as it is, 2 January
C15_Witness ==
    /\ ParsedStr
    /\ CleanedDate = chars(<< "2", "0", "2", "0", "-", "0", "1", "-", "0", "2" >>)
    /\ parsed_date = chars(<< "2", "0", "2", "0", "-", "0", "1", "-", "0", "2" >>)
    /\ matched_format = 3

\* the argument has nothing in it but commas and whitespace
NothingInIt == \A i \in 1..Len(date_str.v) : date_str.v[i] \in Whitespace \cup { ord(",") }

\* C16: parse_date returns "UNKNOWN_DATE" for None, for a value that is not a str,
\* for the empty string and for a string of commas and whitespace only; every call
\* returns.
C16_PlaceholderForNoDate ==
    /\ pc # "raised"
    /\ pc = "parsed" =>
          ((date_str.type # "str" \/ NothingInIt) =>
              /\ parsed_date = chars(<< "U", "N", "K", "N", "O", "W", "N", "_", "D", "A", "T", "E" >>)
              /\ matched_format = 0)

\* an int has been handed in and the placeholder has come back
C16_Witness ==
    /\ pc = "parsed"
    /\ date_str = PyInt
    /\ parsed_date = UNKNOWN_DATE_PLACEHOLDER

\* C17: when the argument has something in it besides commas and whitespace and no
\* pattern parses it, parse_date returns the argument without its commas and
\* surrounding whitespace and otherwise as it is; "not-a-date" and "32/01/2020" are
\* such arguments.
C17_FallbackIsTheCleanedArgument ==
    ParsedStr =>
        /\ (matched_format = 0 /\ ~NothingInIt) => parsed_date = CleanedDate
        /\ CleanedDate \in { chars(<< "n", "o", "t", "-", "a", "-", "d", "a", "t", "e" >>),
                            chars(<< "3", "2", "/", "0", "1", "/", "2", "0", "2", "0" >>) }
              => (matched_format = 0 /\ parsed_date = CleanedDate)

\* "31/13/2020" with a comma in it and blanks around it has come back bare
C17_Witness ==
    /\ ParsedStr
    /\ matched_format = 0
    /\ Len(date_str.v) > Len(parsed_date) + 2
    /\ ord(",") \in Range(date_str.v)
    /\ parsed_date = chars(<< "3", "1", "/", "1", "3", "/", "2", "0", "2", "0" >>)

\* C18: a slash date whose second field is a number above 12 comes back
\* unchanged (but for commas and surrounding whitespace), "01/13/2020" as
\* "01/13/2020".
C18_SecondFieldAboveTwelveUnchanged ==
    ParsedStr =>
        LET fs == FieldsOf(CleanedDate, ord("/"))
        IN fs # << >> =>
           \A a \in FieldNumbers : fs[1] \in Spellings(a) =>
              \A b \in FieldNumbers : (fs[2] \in Spellings(b) /\ b > 12) =>
                 \A y \in FieldYears : fs[3] = YearSpelling(y) =>
                    parsed_date = CleanedDate

\* C19: "  1st May, 2023  " comes back as "1st may 2023", in lowercase.
C19_FallbackInLowercase ==
    (ParsedStr /\ date_str.v = chars(<< " ", " ", "1", "s", "t", " ", "M", "a", "y", ",", " ", "2", "0", "2", "3", " ", " " >>))
        => parsed_date = chars(<< "1", "s", "t", " ", "m", "a", "y", " ", "2", "0", "2", "3" >>)

-----------------------------------------------------------------------------
(* Properties of normalize_text *)

\* C20: normalize_text returns for every argument, the first call and the call on
\* its own result alike: "" for None and for the empty string, and for any other
\* text the text in lowercase without its leading and trailing whitespace, every
\* character in between kept in its place; handed its own result it returns that
\* result.
C20_LowercasedTrimmedIdempotent ==
    /\ pc = "text" => ENABLED Normalize
    /\ pc = "normalized" => ENABLED NormalizeAgain
    /\ pc \in { "normalized", "renormalized" } =>
          /\ text_arg \in { PyNone, Str(<< >>) } => normalized = << >>
          /\ text_arg.type = "str" =>
                IsLowercasedAndTrimmed(normalized, text_arg.v)
    /\ pc = "renormalized" => renormalized = normalized

\* a text with a capital letter, a blank inside and a blank at its end has come
\* back as "b a", twice
C20_Witness ==
    /\ pc = "renormalized"
    /\ text_arg = Str(chars(<< "B", " ", "a", " " >>))
    /\ normalized = chars(<< "b", " ", "a" >>)
    /\ renormalized = chars(<< "b", " ", "a" >>)

-----------------------------------------------------------------------------
(* Properties of the loaders *)

\* x is absent, empty, or a text of whitespace only
IsBlank(x) ==
    \/ x.type = "NoneType"
    \/ x.type = "str" /\ \A i \in 1..Len(x.v) : x.v[i] \in Whitespace

\* n is s without its leading and trailing whitespace
IsTrimmed(n, s) ==
    \E lead, trail \in 0..Len(s) :
        /\ lead + Len(n) + trail = Len(s)
        /\ \A i \in 1..lead : s[i] \in Whitespace
        /\ \A i \in (Len(s) - trail + 1)..Len(s) : s[i] \in Whitespace
        /\ \A i \in 1..Len(n) : n[i] = s[lead + i]
        /\ (n # << >>) => (n[1] \notin Whitespace /\ n[Len(n)] \notin Whitespace)

\* s is a name as the vocabulary holds them: not empty, no capital letter, no
\* whitespace at either end
IsEntityName(s) ==
    /\ s # << >>
    /\ IsLowercase(s)
    /\ s[1] \notin Whitespace
    /\ s[Len(s)] \notin Whitespace

\* the number that the decimal numeral cs writes
RECURSIVE NumeralValue(_)
NumeralValue(cs) ==
    IF cs = << >> THEN 0
    ELSE 10 * NumeralValue(SubSeq(cs, 1, Len(cs) - 1)) + DigitValue(cs[Len(cs)])

\* id is '<source_type>_item_<item_index>_no_id'
IsGeneratedId(id, source_type, item_index) ==
    LET head == str_chars(source_type) \o chars(<< "_", "i", "t", "e", "m", "_" >>)
        tail == chars(<< "_", "n", "o", "_", "i", "d" >>)
        digits == SubSeq(id, Len(head) + 1, Len(id) - Len(tail))
    IN /\ Len(id) > Len(head) + Len(tail)
       /\ SubSeq(id, 1, Len(head)) = head
       /\ SubSeq(id, Len(id) - Len(tail) + 1, Len(id)) = tail
       /\ \A i \in 1..Len(digits) : digits[i] \in Range(AsciiDigits)
       /\ (Len(digits) > 1) => (digits[1] # ord("0"))
       /\ NumeralValue(digits) = item_index

\* a loading function has returned
Loaded == pc = "loaded"

\* the file the called loader reads
FileRead ==
    CASE call = "DrugsLoader"             -> files.drugs
      [] call = "PubMedCSVLoader"         -> files.pubmed_csv
      [] call = "PubMedJSONLoader"        -> files.pubmed_json
      [] call = "ClinicalTrialsCSVLoader" -> files.clinical_trials

\* loading the file fails: it is not found, reading it raises at some row, or an
\* item of the JSON list is no object
LoadFails(file) ==
    \/ ~file.exists
    \/ file.error_at # 0
    \/ call = "PubMedJSONLoader" /\ \E n \in 1..Len(file.rows) : file.rows[n].type # "dict"

\* C21: every record load_all_publications_data returns has a non-empty
\* normalized title (lowercase, no whitespace at either end), whichever loader
\* made it, the loader of clinical trials included, which keeps every row.
C21_LoadedRecordsHaveATitle ==
    (Loaded /\ call = "load_all_publications_data") =>
        \A n \in 1..Len(loaded) :
            /\ IsEntityName(loaded[n].title)
            /\ loaded[n].source_type \in SourceTypes

\* records of the three loaders were returned, and a row of the clinical trials
\* file with a blank title was read but is not among them
C21_Witness ==
    /\ Loaded
    /\ call = "load_all_publications_data"
    /\ { loaded[n].source_type : n \in 1..Len(loaded) } = SourceTypes
    /\ files.clinical_trials.error_at = 0
    /\ UntitledTrialRow \in Range(files.clinical_trials.rows)
    /\ Len(loaded) = 3

\* C22: when loading fails, load_data returns an empty list, also when the error
\* comes after some rows were read.
C22_FailedLoadReturnsNothing ==
    (Loaded /\ call \in SingleLoaders) =>
        (LoadFails(FileRead) => loaded = << >>)

\* C23: the record _create_publication_entry returns has a non-empty id and a
\* non-empty journal; the id is the generated one when pub_id is None or blank
\* and pub_id as text without surrounding whitespace otherwise; the journal is
\* the placeholder when the journal is absent or blank and the journal in
\* lowercase without surrounding whitespace otherwise.
C23_EntryHasIdAndJournal ==
    (pc = "created") =>
        /\ pub_entry.id # << >>
        /\ pub_entry.journal # << >>
        /\ IF IsBlank(entry_args.pub_id)
           THEN IsGeneratedId(pub_entry.id, entry_args.source_type,
                              entry_args.item_index)
           ELSE IsTrimmed(pub_entry.id, py_str(entry_args.pub_id))
        /\ IF IsBlank(entry_args.journal)
           THEN pub_entry.journal = UNKNOWN_JOURNAL_PLACEHOLDER
           ELSE IsLowercasedAndTrimmed(pub_entry.journal, py_str(entry_args.journal))

\* a blank id and a blank journal at position 10 of the JSON file
C23_Witness ==
    /\ pc = "created"
    /\ entry_args.pub_id = Str(chars(<< " ", "\t" >>))
    /\ entry_args.journal = Str(chars(<< " " >>))
    /\ entry_args.source_type = "pubmed_json"
    /\ entry_args.item_index = 10
    /\ pub_entry.id = str_chars("pubmed_json")
                         \o chars(<< "_", "i", "t", "e", "m", "_", "1", "0", "_", "n", "o",
                               "_", "i", "d" >>)
    /\ pub_entry.journal = UNKNOWN_JOURNAL_PLACEHOLDER

\* C24: the list DrugsLoader.load_data returns holds only non-empty, lowercase,
\* trimmed names, each once; every name is that of a row read, and every row read
\* that has a name is present under its lowercased, trimmed name.
C24_VocabularyIsASetOfEntityNames ==
    (Loaded /\ call = "DrugsLoader") =>
        LET rows == IF files.drugs.exists THEN RowsRead(files.drugs) ELSE << >>
        IN /\ \A i \in 1..Len(loaded) : IsEntityName(loaded[i])
           /\ \A i, j \in 1..Len(loaded) : (loaded[i] = loaded[j]) => (i = j)
           /\ \A i \in 1..Len(loaded) : \E n \in 1..Len(rows) :
                 /\ ~IsBlank(Get(rows[n], "drug"))
                 /\ IsLowercasedAndTrimmed(loaded[i], py_str(Get(rows[n], "drug")))
           /\ \A n \in 1..Len(rows) :
                 ~IsBlank(Get(rows[n], "drug")) =>
                    \E i \in 1..Len(loaded) :
                       IsLowercasedAndTrimmed(loaded[i], py_str(Get(rows[n], "drug")))

\* "A" and "a " are one name, and the row with an empty name left nothing
C24_Witness ==
    /\ Loaded
    /\ call = "DrugsLoader"
    /\ files.drugs.error_at = 0
    /\ DrugRow(Str(chars(<< "A" >>))) \in Range(files.drugs.rows)
    /\ DrugRow(Str(chars(<< "a", " " >>))) \in Range(files.drugs.rows)
    /\ loaded = << chars(<< "a" >>) >>

-----------------------------------------------------------------------------
(* Properties of run_pipeline *)

\* the steps of a full run, in the order of main.py
StepOrder ==
    << "ensure_output_dir", "load_drugs", "load_publications", "build_graph",
       "save", "adhoc_queries" >>

\* the first k steps of a full run
FirstSteps(k) == SubSeq(StepOrder, 1, k)

\* run_pipeline has returned
Ended == step = "ended"

\* nothing was loaded or built
NothingLoaded ==
    drugs_list = << >> /\ publications_list = << >> /\ drug_mention_graph = << >>

\* no output file was written in this run
NothingWritten == output_file \in { "absent", "old" } /\ save_error = ""

\* what the builder is given cannot make it skip a name or a record, or fail
BuilderInputsAreSound ==
    /\ \A n \in 1..Len(drugs_list) : IsEntityName(drugs_list[n])
    /\ \A n \in 1..Len(publications_list) :
          /\ TitleUsable(publications_list[n])
          /\ ErrorOf(publications_list[n]) = ""

\* the steps made so far are the first steps of a full run, and the builder is
\* never left through an exception
StepsInOrder ==
    /\ \E k \in 0..Len(StepOrder) : trace = FirstSteps(k)
    /\ pc # "raised"
    /\ (step \in { "build_graph", "building" }) => BuilderInputsAreSound

\* a run that has ended made one of four sequences of steps: the first step alone
\* exactly if the output directory could not be created, the first two exactly if
\* it could and no name was loaded, and else all steps up to the save attempt,
\* followed by the queries exactly if the graph holds an entity, whether the save
\* succeeded or not
EndsAsItShould ==
    Ended =>
        \/ /\ trace = FirstSteps(1)
           /\ output_dir = "absent"
           /\ NothingLoaded /\ NothingWritten
        \/ /\ trace = FirstSteps(2)
           /\ output_dir = "present"
           /\ NothingLoaded /\ NothingWritten
        \/ /\ trace = FirstSteps(5)
           /\ output_dir = "present"
           /\ drugs_list # << >>
           /\ pc = "returned"
           /\ drug_mention_graph = << >>
           /\ target_drug_name = << >>
        \/ /\ trace = FirstSteps(6)
           /\ output_dir = "present"
           /\ drugs_list # << >>
           /\ pc = "returned"
           /\ drug_mention_graph # << >>
           /\ target_drug_name = target_drug_for_adhoc

\* C26: in every run the steps are made in the order ensure output directory, load
\* drugs, load publications, build graph, attempt to save, ad-hoc queries; the run
\* ends after the first step if the directory cannot be created, after the second
\* without a file written if no drugs were loaded, and runs the queries after the
\* save attempt exactly if the graph is not empty; every run ends.
C26_PipelineStepsInOrderAndEnds ==
    /\ [](StepsInOrder /\ EndsAsItShould)
    /\ <>Ended

\* a run that made every step although the save failed before the file was opened
C26_Witness ==
    /\ Ended
    /\ trace = StepOrder
    /\ save_error = "IOError"
    /\ output_file = "old"
    /\ Len(drug_mention_graph) = 2
    /\ most_prolific_journal = "j"

====
